---- MODULE Spec2Model ----
(***************************************************************************)
(* Speed-limit resolution engine of backend/server.py: the in-memory       *)
(* speed-limit cache, the Overpass query client with server fallback, the  *)
(* closest-road matcher and the /speed-limit and /speed-ahead handlers.    *)
(*                                                                         *)
(* Coordinates are integers in units of 0.00025 degree (half a cache       *)
(* cell), so that lat * 2000 is n / 2 and the ties of Python's round()     *)
(* occur.  Time is in seconds.                                             *)
(***************************************************************************)
EXTENDS Integers, Sequences, FiniteSets, TLC

VARIABLES
    now,                    \* time.time()
    speed_limit_cache,      \* the dict, as the sequence of its items in insertion order
    cache_stats,            \* hits, misses, api_calls, api_failures, last_reset
    last_successful_server, \* [url, time]
    lastOp,                 \* the last cache operation performed and what it returned
    geo,                    \* one run of the road matcher: its input and its result
    parse,                  \* one run of parse_maxspeed: its text and what it returned
    cfg,                    \* the environment: TOMTOM_API_KEY and OVERPASS_SERVER_URL set or not
    calls,                  \* the handler invocation of each client: where it is and its locals
    hist                    \* the last finished invocation and the operations performed so far

vars == <<now, speed_limit_cache, cache_stats, last_successful_server, lastOp, geo, parse,
          cfg, calls, hist>>

\* Python's None, and None where a str (a sequence of characters) or an int is expected.
None == "None"

NoneStr == <<"None">>

NoneInt == -1

(***************************************************************************)
(* Bounds of the model.                                                    *)
(***************************************************************************)
\* Number of cache operations of one behaviour of SpecCache.
MaxOps == 3
\* Last instant of the clock.
MaxTime == 7500
\* Longest geometry and longest candidate list the road matcher is run on.
MaxGeomLen == 3
MaxCands == 2

(***************************************************************************)
(* Program constants.                                                      *)
(***************************************************************************)
CACHE_TTL_EXPLICIT == 7200
CACHE_TTL_ESTIMATED == 3600
CACHE_TTL_ERROR == 300
CACHE_TTL_NONE == 600
\* The cap of the cache, 5000 in the source, scaled down.
CACHE_MAX_SIZE == 5

(***************************************************************************)
(* Cache keys.                                                             *)
(***************************************************************************)
\* round(n / 2) as Python 3 rounds: to the nearest integer, ties to even.
PyRoundHalf(n) ==
    IF n % 2 = 0 THEN n \div 2
    ELSE LET k == (n - 1) \div 2
         IN  IF k % 2 = 0 THEN k ELSE k + 1

\* rounded = round(x * 2000) / 2000, printed with four decimals: the key is
\* the pair of the two numbers in units of 0.0001 degree.
get_cache_key(lat, lon) == <<5 * PyRoundHalf(lat), 5 * PyRoundHalf(lon)>>

\* get_nearby_cache_keys without the four diagonal cells.
NearbyKeysNoDiagonal(lat, lon) ==
    <<get_cache_key(lat - 2, lon), get_cache_key(lat, lon - 2), get_cache_key(lat, lon),
      get_cache_key(lat, lon), get_cache_key(lat, lon), get_cache_key(lat, lon),
      get_cache_key(lat, lon), get_cache_key(lat, lon + 2), get_cache_key(lat + 2, lon)>>

\* 0.0005 degree is two model units.
get_nearby_cache_keys(lat, lon) ==
    LET d == <<-2, 0, 2>>
    IN  [i \in 1..9 |->
            get_cache_key(lat + d[((i - 1) \div 3) + 1], lon + d[((i - 1) % 3) + 1])]

\* get_cache_ttl with the longest time to live for every source.
GetCacheTtlLongestForAll(source) == CACHE_TTL_EXPLICIT

get_cache_ttl(source) ==
    IF source = "openstreetmap" THEN CACHE_TTL_EXPLICIT
    ELSE IF source = "estimated" THEN CACHE_TTL_ESTIMATED
    ELSE IF source = "none" THEN CACHE_TTL_NONE
    ELSE IF source = "error" THEN CACHE_TTL_ERROR
    ELSE CACHE_TTL_ESTIMATED

(***************************************************************************)
(* The dict speed_limit_cache: a sequence of [key, timestamp, data].       *)
(***************************************************************************)
CacheKeys(c) == {c[i].key : i \in DOMAIN c}

CacheIndex(c, k) == CHOOSE i \in DOMAIN c : c[i].key = k

CacheEntry(c, k) == c[CacheIndex(c, k)]

\* del speed_limit_cache[k]
CacheDel(c, k) == SelectSeq(c, LAMBDA e : e.key # k)

\* speed_limit_cache[k] = entry: an existing key keeps its place.
\* CacheSet adding an item whether or not the key is held.
CacheSetAppending(c, k, entry) == Append(c, entry)

CacheSet(c, k, entry) ==
    IF k \in CacheKeys(c)
    THEN [c EXCEPT ![CacheIndex(c, k)] = entry]
    ELSE Append(c, entry)

\* EntryFresh with half the time to live.
EntryFreshHalfTtl(c, k, t) ==
    /\ k \in CacheKeys(c)
    /\ 2 * (t - CacheEntry(c, k).timestamp) < get_cache_ttl(CacheEntry(c, k).data.source)

\* time.time() - entry['timestamp'] < ttl
EntryFresh(c, k, t) ==
    /\ k \in CacheKeys(c)
    /\ t - CacheEntry(c, k).timestamp < get_cache_ttl(CacheEntry(c, k).data.source)

MinOf(S) == CHOOSE x \in S : \A y \in S : x <= y

\* What the lookup returns on a miss (Python's None).
NoData == [speed_limit |-> NoneInt, unit |-> "", road_name |-> NoneStr, source |-> None]

\* The lookup: whether it returns an entry's data, the data, the dict and
\* the counters it leaves, and the key of the entry it returns.
GetCachedServingAnyNeighbor(c, st, t, lat, lon) ==
    LET key == get_cache_key(lat, lon)
        exact == EntryFresh(c, key, t)
        c1 == IF key \in CacheKeys(c) /\ ~exact THEN CacheDel(c, key) ELSE c
        nearby == get_nearby_cache_keys(lat, lon)
        good == {i \in 1..9 :
                    /\ nearby[i] # key
                    /\ EntryFresh(c1, nearby[i], t)}
    IN  IF exact
        THEN [hit |-> TRUE, ret |-> CacheEntry(c, key).data, cache |-> c,
              stats |-> [st EXCEPT !.hits = @ + 1], key |-> key]
        ELSE IF good # {}
        THEN [hit |-> TRUE, ret |-> CacheEntry(c1, nearby[MinOf(good)]).data, cache |-> c1,
              stats |-> [st EXCEPT !.hits = @ + 1], key |-> nearby[MinOf(good)]]
        ELSE [hit |-> FALSE, ret |-> NoData, cache |-> c1,
              stats |-> [st EXCEPT !.misses = @ + 1], key |-> key]

\* get_cached_speed_limit looking at the neighbours when the entry of the
\* exact cell holds no limit.
GetCachedPreferringNeighbor(c, st, t, lat, lon) ==
    LET key == get_cache_key(lat, lon)
        exact == EntryFresh(c, key, t)
        c1 == IF key \in CacheKeys(c) /\ ~exact THEN CacheDel(c, key) ELSE c
        nearby == get_nearby_cache_keys(lat, lon)
        good == {i \in 1..9 :
                    /\ nearby[i] # key
                    /\ EntryFresh(c1, nearby[i], t)
                    /\ CacheEntry(c1, nearby[i]).data.source \notin {"error", "none"}}
    IN  IF exact /\ (CacheEntry(c, key).data.source \notin {"error", "none"} \/ good = {})
        THEN [hit |-> TRUE, ret |-> CacheEntry(c, key).data, cache |-> c,
              stats |-> [st EXCEPT !.hits = @ + 1], key |-> key]
        ELSE IF good # {}
        THEN [hit |-> TRUE, ret |-> CacheEntry(c1, nearby[MinOf(good)]).data, cache |-> c1,
              stats |-> [st EXCEPT !.hits = @ + 1], key |-> nearby[MinOf(good)]]
        ELSE [hit |-> FALSE, ret |-> NoData, cache |-> c1,
              stats |-> [st EXCEPT !.misses = @ + 1], key |-> key]

get_cached_speed_limit(c, st, t, lat, lon) ==
    LET key == get_cache_key(lat, lon)
        exact == EntryFresh(c, key, t)
        c1 == IF key \in CacheKeys(c) /\ ~exact THEN CacheDel(c, key) ELSE c
        nearby == get_nearby_cache_keys(lat, lon)
        good == {i \in 1..9 :
                    /\ nearby[i] # key
                    /\ EntryFresh(c1, nearby[i], t)
                    /\ CacheEntry(c1, nearby[i]).data.source \notin {"error", "none"}}
    IN  IF exact
        THEN [hit |-> TRUE, ret |-> CacheEntry(c, key).data, cache |-> c,
              stats |-> [st EXCEPT !.hits = @ + 1], key |-> key]
        ELSE IF good # {}
        THEN [hit |-> TRUE, ret |-> CacheEntry(c1, nearby[MinOf(good)]).data, cache |-> c1,
              stats |-> [st EXCEPT !.hits = @ + 1], key |-> nearby[MinOf(good)]]
        ELSE [hit |-> FALSE, ret |-> NoData, cache |-> c1,
              stats |-> [st EXCEPT !.misses = @ + 1], key |-> key]

\* int(CACHE_MAX_SIZE * 0.2)
EvictCount == (CACHE_MAX_SIZE * 2) \div 10

\* The position of item i in sorted(keys, key=timestamp): the sort is stable.
SortRank(c, i) ==
    Cardinality({j \in DOMAIN c :
        \/ c[j].timestamp < c[i].timestamp
        \/ (c[j].timestamp = c[i].timestamp /\ j < i)})

\* EvictedKeys deleting from the other end of the sorted keys.
EvictedKeysNewest(c) ==
    IF Len(c) > CACHE_MAX_SIZE
    THEN {c[i].key : i \in {j \in DOMAIN c : SortRank(c, j) >= Len(c) - EvictCount}}
    ELSE {}

\* The keys the eviction pass of set_cached_speed_limit deletes.
EvictedKeys(c) ==
    IF Len(c) > CACHE_MAX_SIZE
    THEN {c[i].key : i \in {j \in DOMAIN c : SortRank(c, j) < EvictCount}}
    ELSE {}

\* set_cached_speed_limit without the eviction.
SetCachedNeverEvicting(c, t, lat, lon, data) ==
    LET key == get_cache_key(lat, lon)
    IN  CacheSet(c, key, [key |-> key, timestamp |-> t, data |-> data])

set_cached_speed_limit(c, t, lat, lon, data) ==
    LET gone == EvictedKeys(c)
        c1 == SelectSeq(c, LAMBDA e : e.key \notin gone)
        key == get_cache_key(lat, lon)
    IN  CacheSet(c1, key, [key |-> key, timestamp |-> t, data |-> data])

(***************************************************************************)
(* Strings are sequences of one-character strings.                         *)
(***************************************************************************)
Digits == {"0", "1", "2", "3", "4", "5", "6", "7", "8", "9"}

DigitVal(ch) ==
    CASE ch = "0" -> 0 [] ch = "1" -> 1 [] ch = "2" -> 2 [] ch = "3" -> 3
      [] ch = "4" -> 4 [] ch = "5" -> 5 [] ch = "6" -> 6 [] ch = "7" -> 7
      [] ch = "8" -> 8 [] ch = "9" -> 9

\* str.lower(), on the letters the model's texts use in upper case.
LowerChar(ch) ==
    CASE ch = "M" -> "m" [] ch = "P" -> "p" [] ch = "H" -> "h" [] ch = "K" -> "k"
      [] ch = "N" -> "n" [] ch = "W" -> "w"
      [] OTHER -> ch

StrLower(s) == [i \in 1..Len(s) |-> LowerChar(s[i])]

\* str.strip()
StrStrip(s) ==
    LET ink == {i \in 1..Len(s) : s[i] # " "}
    IN  IF ink = {} THEN <<>>
        ELSE SubSeq(s, MinOf(ink), CHOOSE i \in ink : \A j \in ink : j <= i)

\* sub in s
StrContains(s, sub) ==
    \E i \in 1..(Len(s) - Len(sub) + 1) : SubSeq(s, i, i + Len(sub) - 1) = sub

\* The characters str.isdigit() is true of and int() refuses: the superscript
\* digits and the like, "^2" standing for U+00B2.
SuperDigits == {"^2"}

\* ch.isdigit()
IsDigitChar(ch) == ch \in Digits \cup SuperDigits

\* ''.join(filter(str.isdigit, s))
StrDigits(s) == SelectSeq(s, IsDigitChar)

\* s.isdigit()
StrIsDigit(s) == Len(s) > 0 /\ \A i \in 1..Len(s) : IsDigitChar(s[i])

\* The value of a string of decimal digits.
RECURSIVE DecimalValue(_)
DecimalValue(s) ==
    IF Len(s) = 0 THEN 0
    ELSE 10 * DecimalValue(SubSeq(s, 1, Len(s) - 1)) + DigitVal(s[Len(s)])

\* int() raises ValueError, where an int is expected.
ValueError == -2

\* int(s), s a non-empty string str.isdigit() is true of
StrToInt(s) ==
    IF \E i \in 1..Len(s) : s[i] \in SuperDigits THEN ValueError
    ELSE DecimalValue(s)

\* re.sub(r'[<>"\';\\]', '', value)[:max_length].strip(); a falsy value is returned as it is.
sanitize_string(value, max_length) ==
    IF value = NoneStr \/ value = <<>> THEN value
    ELSE LET kept == SelectSeq(value, LAMBDA ch : ch \notin {"<", ">", "\"", "'", ";", "\\"})
         IN  StrStrip(SubSeq(kept, 1, IF Len(kept) < max_length THEN Len(kept) ELSE max_length))

(***************************************************************************)
(* parse_maxspeed: the (speed_limit, unit) of a maxspeed tag, speed_limit   *)
(* being ValueError when int() raises.                                     *)
(***************************************************************************)
parse_maxspeed(maxspeed) ==
    IF maxspeed = <<>> THEN <<NoneInt, "mph">>
    ELSE
    LET clean == StrStrip(StrLower(maxspeed))
        digits == StrDigits(clean)
    IN  IF clean \in {<<"n", "o", "n", "e">>, <<"u", "n", "l", "i", "m", "i", "t", "e", "d">>}
        THEN <<75, "mph">>
        ELSE IF clean = <<"w", "a", "l", "k">> THEN <<5, "mph">>
        ELSE IF StrContains(clean, <<"m", "p", "h">>)
        THEN <<IF digits # <<>> THEN StrToInt(digits) ELSE NoneInt, "mph">>
        ELSE IF StrContains(clean, <<"k", "m", "/", "h">>) \/ StrContains(clean, <<"k", "m", "h">>)
        THEN <<IF digits # <<>> THEN StrToInt(digits) ELSE NoneInt, "km/h">>
        ELSE IF StrIsDigit(clean) THEN <<StrToInt(clean), "km/h">>
        ELSE IF digits # <<>> THEN <<StrToInt(digits), "km/h">>
        ELSE <<NoneInt, "mph">>

\* Truthy with 0 taken for true.
TruthyNotNone(n) == n # NoneInt

\* Python's truth of an Optional[int].
Truthy(n) == n # NoneInt /\ n # 0

\* No run of parse_maxspeed.
ParseIdle == [text |-> <<>>, ran |-> FALSE, result |-> <<NoneInt, "mph">>]

(***************************************************************************)
(* The road matcher.  A way is [tags, geometry]; tags has the fields       *)
(* highway, maxspeed, name and ref, a missing tag being the default that   *)
(* tags.get gives it; geometry is a sequence of [lat, lon].                *)
(***************************************************************************)
\* The distance, as its square n / d in model units squared and the factor
\* k it is multiplied by: a zero-length pair returns the distance in degrees
\* (k = 0), any other pair returns it multiplied by 111000 (k = 1).
MetersPerDegree == 111000

calculate_point_to_segment_distance(px, py, x1, y1, x2, y2) ==
    LET dx == x2 - x1
        dy == y2 - y1
        den == dx * dx + dy * dy
        num == (px - x1) * dx + (py - y1) * dy
    IN  IF dx = 0 /\ dy = 0
        THEN [n |-> (px - x1) * (px - x1) + (py - y1) * (py - y1), d |-> 1, k |-> 0]
        ELSE IF num <= 0
        THEN [n |-> (px - x1) * (px - x1) + (py - y1) * (py - y1), d |-> 1, k |-> 1]
        ELSE IF num >= den
        THEN [n |-> (px - x2) * (px - x2) + (py - y2) * (py - y2), d |-> 1, k |-> 1]
        ELSE [n |-> ((px - x1) * den - num * dx) * ((px - x1) * den - num * dx)
                     + ((py - y1) * den - num * dy) * ((py - y1) * den - num * dy),
              d |-> den * den, k |-> 1]

\* 111000^2 * x <= y and 111000^2 * x < y on naturals, without forming the product
ScaledLeq(x, y) == x <= (y \div MetersPerDegree) \div MetersPerDegree

ScaledLess(x, y) == y >= 1 /\ x <= ((y - 1) \div MetersPerDegree) \div MetersPerDegree

\* a < b and a <= b on the floats such records stand for
DistLess(a, b) ==
    LET x == a.n * b.d
        y == b.n * a.d
    IN  IF a.k = b.k THEN x < y
        ELSE IF a.k = 1 THEN ScaledLess(x, y)
        ELSE ~ScaledLeq(y, x)

DistLeq(a, b) == ~DistLess(b, a)

\* The distances from the user to the segments of a way.
SegmentDists(geometry, user_lat, user_lon) ==
    {calculate_point_to_segment_distance(
         user_lon, user_lat,
         geometry[i].lon, geometry[i].lat,
         geometry[i + 1].lon, geometry[i + 1].lat) : i \in 1..(Len(geometry) - 1)}

\* road_min_dist of a way with at least two points.
RoadMinDist(geometry, user_lat, user_lon) ==
    CHOOSE a \in SegmentDists(geometry, user_lat, user_lon) :
        \A b \in SegmentDists(geometry, user_lat, user_lon) : DistLeq(a, b)

\* The ways with at least two points, each as <<its index, its road_min_dist>>.
RoadDists(elements, user_lat, user_lon) ==
    {<<i, RoadMinDist(elements[i].geometry, user_lat, user_lon)>> :
        i \in {j \in 1..Len(elements) : Len(elements[j].geometry) >= 2}}

\* The index in elements of the way find_closest_road_with_geometry returns,
\* 0 when it returns None: the first way of the smallest road_min_dist.
ClosestIndex(elements, user_lat, user_lon) ==
    \* \E binds the value, so that it is computed once
    IF \A j \in 1..Len(elements) : Len(elements[j].geometry) < 2 THEN 0
    ELSE CHOOSE best \in 1..Len(elements) :
            \E ds \in {RoadDists(elements, user_lat, user_lon)} :
                best = MinOf({p[1] : p \in {q \in ds : \A r \in ds : DistLeq(q[2], r[2])}})

NoWay == [tags |-> [highway |-> "", maxspeed |-> <<>>, name |-> NoneStr, ref |-> NoneStr],
          geometry |-> <<>>]

\* elements[i], or default when i is 0.
PickRoad(elements, i, default) == IF i = 0 THEN default ELSE elements[i]

find_closest_road_with_geometry(elements, user_lat, user_lon) ==
    PickRoad(elements, ClosestIndex(elements, user_lat, user_lon), NoWay)

(***************************************************************************)
(* get_speed_limit: its tables.                                            *)
(***************************************************************************)
HIGHWAY_SPEED_DEFAULTS ==
    [ motorway |-> 70,
      motorway_link |-> 45,
      trunk |-> 65,
      trunk_link |-> 40,
      primary |-> 55,
      primary_link |-> 35,
      secondary |-> 45,
      secondary_link |-> 30,
      tertiary |-> 35,
      tertiary_link |-> 25,
      residential |-> 25,
      unclassified |-> 45,
      living_street |-> 15,
      service |-> 15,
      track |-> 25,
      road |-> 35,
      busway |-> 35,
      raceway |-> 45,
      pedestrian |-> 10,
      footway |-> 10,
      cycleway |-> 15,
      bridleway |-> 15,
      path |-> 15,
      steps |-> 5 ]

\* The highway types the estimation skips.
NonRoadTypes == {"footway", "cycleway", "path", "steps", "pedestrian", "bridleway"}

\* highway_type.replace('_', ' ').title()
TitleOf(h) ==
    CASE h = "motorway" -> <<"M", "o", "t", "o", "r", "w", "a", "y">> []
         h = "motorway_link" -> <<"M", "o", "t", "o", "r", "w", "a", "y", " ", "L", "i", "n", "k">> []
         h = "trunk" -> <<"T", "r", "u", "n", "k">> []
         h = "trunk_link" -> <<"T", "r", "u", "n", "k", " ", "L", "i", "n", "k">> []
         h = "primary" -> <<"P", "r", "i", "m", "a", "r", "y">> []
         h = "primary_link" -> <<"P", "r", "i", "m", "a", "r", "y", " ", "L", "i", "n", "k">> []
         h = "secondary" -> <<"S", "e", "c", "o", "n", "d", "a", "r", "y">> []
         h = "secondary_link" -> <<"S", "e", "c", "o", "n", "d", "a", "r", "y", " ", "L", "i", "n", "k">> []
         h = "tertiary" -> <<"T", "e", "r", "t", "i", "a", "r", "y">> []
         h = "tertiary_link" -> <<"T", "e", "r", "t", "i", "a", "r", "y", " ", "L", "i", "n", "k">> []
         h = "residential" -> <<"R", "e", "s", "i", "d", "e", "n", "t", "i", "a", "l">> []
         h = "unclassified" -> <<"U", "n", "c", "l", "a", "s", "s", "i", "f", "i", "e", "d">> []
         h = "living_street" -> <<"L", "i", "v", "i", "n", "g", " ", "S", "t", "r", "e", "e", "t">> []
         h = "service" -> <<"S", "e", "r", "v", "i", "c", "e">> []
         h = "track" -> <<"T", "r", "a", "c", "k">> []
         h = "road" -> <<"R", "o", "a", "d">> []
         h = "busway" -> <<"B", "u", "s", "w", "a", "y">> []
         h = "raceway" -> <<"R", "a", "c", "e", "w", "a", "y">> []
         h = "pedestrian" -> <<"P", "e", "d", "e", "s", "t", "r", "i", "a", "n">> []
         h = "footway" -> <<"F", "o", "o", "t", "w", "a", "y">> []
         h = "cycleway" -> <<"C", "y", "c", "l", "e", "w", "a", "y">> []
         h = "bridleway" -> <<"B", "r", "i", "d", "l", "e", "w", "a", "y">> []
         h = "path" -> <<"P", "a", "t", "h">> []
         h = "steps" -> <<"S", "t", "e", "p", "s">> []
         h = "construction" -> <<"C", "o", "n", "s", "t", "r", "u", "c", "t", "i", "o", "n">> []
         h = "" -> <<>>

\* tags.get("name") or tags.get("ref") or default
NameOrRef(tags, default) ==
    IF tags.name # NoneStr /\ tags.name # <<>> THEN tags.name
    ELSE IF tags.ref # NoneStr /\ tags.ref # <<>> THEN tags.ref
    ELSE default

\* QueryPlan with the highway query of each radius before its maxspeed query.
QueryPlanEstimateFirst ==
    << [kind |-> "maxspeed", radius |-> 75, narrow |-> TRUE],
       [kind |-> "highway", radius |-> 100, narrow |-> FALSE],
       [kind |-> "maxspeed", radius |-> 100, narrow |-> FALSE],
       [kind |-> "highway", radius |-> 150, narrow |-> FALSE],
       [kind |-> "maxspeed", radius |-> 150, narrow |-> FALSE],
       [kind |-> "highway", radius |-> 250, narrow |-> FALSE],
       [kind |-> "maxspeed", radius |-> 250, narrow |-> FALSE] >>

\* The (kind, radius) of the Overpass queries of one call, in the order the
\* code issues them: the 75 m query, then for each radius of [100, 150, 250]
\* the maxspeed query and the highway query.
QueryPlan ==
    << [kind |-> "maxspeed", radius |-> 75, narrow |-> TRUE],
       [kind |-> "maxspeed", radius |-> 100, narrow |-> FALSE],
       [kind |-> "highway", radius |-> 100, narrow |-> FALSE],
       [kind |-> "maxspeed", radius |-> 150, narrow |-> FALSE],
       [kind |-> "highway", radius |-> 150, narrow |-> FALSE],
       [kind |-> "maxspeed", radius |-> 250, narrow |-> FALSE],
       [kind |-> "highway", radius |-> 250, narrow |-> FALSE] >>

\* What query_overpass_with_fallback returns: None, or the JSON body, which
\* is an object with its list of elements, or a truthy value that is no
\* object (shape "other").
NoBody == [shape |-> "none", elements |-> <<>>]

BadShape == [shape |-> "other", elements |-> <<>>]

Body(elements) == [shape |-> "object", elements |-> elements]

\* data and data.get("elements")
HasElements(data) == data.shape = "object" /\ data.elements # <<>>

\* data.get raises AttributeError
Raises(data) == data.shape = "other"

\* driveable_roads without the residential streets.
DriveableRoadsNoResidential(elements) ==
    SelectSeq(elements, LAMBDA e :
        /\ e.tags.highway \notin NonRoadTypes \cup {"residential"}
        /\ e.tags.highway \in DOMAIN HIGHWAY_SPEED_DEFAULTS)

\* The ways of data2["elements"] the estimation keeps.
driveable_roads(elements) ==
    SelectSeq(elements, LAMBDA e :
        /\ e.tags.highway \notin NonRoadTypes
        /\ e.tags.highway \in DOMAIN HIGHWAY_SPEED_DEFAULTS)

\* The way step 1 resolves from: the closest way with geometry, or None.
NarrowRoad(elements, lat, lon) == find_closest_road_with_geometry(elements, lat, lon)

\* The way a widening step resolves from: the closest, or else the first.
WideRoad(elements, lat, lon) ==
    PickRoad(elements, ClosestIndex(elements, lat, lon), elements[1])

\* The query does not end the call.
NotFound == [found |-> FALSE, raised |-> FALSE, data |-> NoData, road |-> NoWay]

\* Step 1 and the maxspeed branch of a widening step, from the way they chose.
ExplicitFromRoad(road) ==
    IF road = NoWay THEN NotFound
    ELSE
    LET parsed == parse_maxspeed(road.tags.maxspeed)
        road_name == sanitize_string(NameOrRef(road.tags, <<"U", "n", "k", "n", "o", "w", "n", " ", "R", "o", "a", "d">>), 100)
    IN  IF parsed[1] = ValueError THEN [NotFound EXCEPT !.raised = TRUE]
        ELSE IF ~Truthy(parsed[1]) THEN NotFound
        ELSE [found |-> TRUE, raised |-> FALSE,
              data |-> [speed_limit |-> parsed[1], unit |-> parsed[2],
                        road_name |-> road_name, source |-> "openstreetmap"],
              road |-> road]

\* The result of a maxspeed query: whether it ends the call, its dict and its way.
ExplicitResult(data, narrow, lat, lon) ==
    IF ~HasElements(data) THEN NotFound
    ELSE CHOOSE r \in {ExplicitFromRoad(road) :
                          road \in {IF narrow THEN NarrowRoad(data.elements, lat, lon)
                                    ELSE WideRoad(data.elements, lat, lon)}} : TRUE

\* The estimation from closest_road.
EstimatedFromRoad(closest_road) ==
    LET highway_type == closest_road.tags.highway
        road_name == sanitize_string(NameOrRef(closest_road.tags, TitleOf(highway_type)), 100)
    IN  IF ~Truthy(HIGHWAY_SPEED_DEFAULTS[highway_type]) THEN NotFound
        ELSE [found |-> TRUE, raised |-> FALSE,
              data |-> [speed_limit |-> HIGHWAY_SPEED_DEFAULTS[highway_type], unit |-> "mph",
                        road_name |-> road_name, source |-> "estimated"],
              road |-> closest_road]

\* The estimation from driveable_roads.
EstimatedFromRoads(roads, lat, lon) ==
    IF roads = <<>> THEN NotFound
    ELSE CHOOSE r \in {EstimatedFromRoad(closest_road) :
                          closest_road \in {WideRoad(roads, lat, lon)}} : TRUE

\* The result of a highway query.
EstimatedResult(data, lat, lon) ==
    IF ~HasElements(data) THEN NotFound
    ELSE CHOOSE r \in {EstimatedFromRoads(roads, lat, lon) :
                          roads \in {driveable_roads(data.elements)}} : TRUE

\* What the query at position q of the plan resolves to.
StageResult(q, data, lat, lon) ==
    IF QueryPlan[q].kind = "maxspeed"
    THEN ExplicitResult(data, QueryPlan[q].narrow, lat, lon)
    ELSE EstimatedResult(data, lat, lon)

\* round(n / d) as Python rounds, n >= 0 and d > 0: ties to even.
PyRoundDiv(n, d) ==
    LET fl == n \div d
        r2 == 2 * (n % d)
    IN  IF r2 < d THEN fl
        ELSE IF r2 > d THEN fl + 1
        ELSE IF fl % 2 = 0 THEN fl ELSE fl + 1

\* What get_speed_limit_from_tomtom returns for maxSpeedLimitInKmh = kmh,
\* kmh = 0 standing for every way it returns None.
tomtom_result(kmh) ==
    IF kmh = 0 THEN NoData
    ELSE [speed_limit |-> PyRoundDiv(kmh * 621371, 1000000), unit |-> "mph",
          road_name |-> NoneStr, source |-> "tomtom"]

NoneResult == [speed_limit |-> NoneInt, unit |-> "mph", road_name |-> NoneStr, source |-> "none"]

\* SpeedLimitResponse(**result): no result dict has a road_type.
SpeedLimitResponse(data) ==
    [speed_limit |-> data.speed_limit, unit |-> data.unit, road_name |-> data.road_name,
     source |-> data.source, road_type |-> None]

(***************************************************************************)
(* get_speed_ahead: its functions.  Bearings are integers, in degrees.     *)
(***************************************************************************)
\* round(bearing / 45) % 8 into the list of directions.
bearing_to_direction(bearing) ==
    <<"N", "NE", "E", "SE", "S", "SW", "W", "NW">>[(PyRoundDiv(bearing, 45) % 8) + 1]

\* The bearing from the first to the last point of the geometry, None below
\* two points.  atan2 is exact for a way along a meridian and for a way along
\* the equator, the only ways the bearing is taken of.
calculate_road_bearing(geometry) ==
    IF Len(geometry) < 2 THEN NoneInt
    ELSE LET start == geometry[1]
             end == geometry[Len(geometry)]
         IN  CASE end.lon = start.lon /\ end.lat >= start.lat -> 0
               [] end.lon = start.lon /\ end.lat < start.lat -> 180
               [] end.lon > start.lon /\ end.lat = 0 /\ start.lat = 0 -> 90
               [] end.lon < start.lon /\ end.lat = 0 /\ start.lat = 0 -> 270

Abs(n) == IF n < 0 THEN -n ELSE n

\* is_road_aligned_with_travel refusing a way without a bearing.
IsRoadAlignedKnownOnly(road_bearing, travel_bearing, tolerance) ==
    IF road_bearing = NoneInt THEN FALSE
    ELSE LET rb == road_bearing % 360
             tb == travel_bearing % 360
             diff1 == Abs(rb - tb)
             diff2 == Abs(((rb + 180) % 360) - tb)
         IN  MinOf({diff1, 360 - diff1, diff2, 360 - diff2}) <= tolerance

\* is_road_aligned_with_travel comparing in the direction of the geometry only.
IsRoadAlignedOneWay(road_bearing, travel_bearing, tolerance) ==
    IF road_bearing = NoneInt THEN TRUE
    ELSE LET rb == road_bearing % 360
             tb == travel_bearing % 360
             diff1 == Abs(rb - tb)
         IN  MinOf({diff1, 360 - diff1}) <= tolerance

is_road_aligned_with_travel(road_bearing, travel_bearing, tolerance) ==
    IF road_bearing = NoneInt THEN TRUE
    ELSE LET rb == road_bearing % 360
             tb == travel_bearing % 360
             diff1 == Abs(rb - tb)
             diff2 == Abs(((rb + 180) % 360) - tb)
         IN  MinOf({diff1, 360 - diff1, diff2, 360 - diff2}) <= tolerance

HIGHWAY_ROAD_TYPES == {"motorway", "motorway_link", "trunk", "trunk_link"}

\* should_include_road_in_prediction without its rule on the road type on a highway.
ShouldIncludeAlignedOfAnyClass(road_type, current_road_type, road_bearing, travel_bearing) ==
    LET skip_types == {"footway", "cycleway", "path", "steps", "pedestrian",
                       "bridleway", "service", "track", "bus_guideway"}
        tolerance == IF current_road_type \in HIGHWAY_ROAD_TYPES THEN 35 ELSE 45
    IN  /\ road_type \notin skip_types
        /\ is_road_aligned_with_travel(road_bearing, travel_bearing, tolerance)

should_include_road_in_prediction(road_type, current_road_type, road_bearing, travel_bearing) ==
    LET skip_types == {"footway", "cycleway", "path", "steps", "pedestrian",
                       "bridleway", "service", "track", "bus_guideway"}
        tolerance == IF current_road_type \in HIGHWAY_ROAD_TYPES THEN 35 ELSE 45
    IN  /\ road_type \notin skip_types
        /\ is_road_aligned_with_travel(road_bearing, travel_bearing, tolerance)
        /\ (current_road_type \in HIGHWAY_ROAD_TYPES => road_type \in HIGHWAY_ROAD_TYPES)

\* if not (0 <= bearing <= 360): bearing = bearing % 360
\* NormalizeBearing leaving every bearing as it is.
NormalizeBearingNever(bearing) == bearing

NormalizeBearing(bearing) ==
    IF 0 <= bearing /\ bearing <= 360 THEN bearing ELSE bearing % 360

\* The distances ahead, the farthest first.
AheadDistancesFarFirst(current_road_type) ==
    IF current_road_type \in HIGHWAY_ROAD_TYPES THEN <<1500, 800, 300>> ELSE <<1000, 500, 200>>

\* The distances ahead and the search radius, by the current road type.
AheadDistances(current_road_type) ==
    IF current_road_type \in HIGHWAY_ROAD_TYPES THEN <<300, 800, 1500>> ELSE <<200, 500, 1000>>

AheadRadius(current_road_type) ==
    IF current_road_type \in HIGHWAY_ROAD_TYPES THEN 30 ELSE 50

\* A handler that parses no maxspeed tag.
AheadParseNothing(maxspeed) == <<NoneInt, "mph">>

\* The (speed_limit, unit) the handler parses of a non-empty maxspeed tag.
ahead_parse(maxspeed) ==
    LET clean == StrStrip(StrLower(maxspeed))
        digits == StrDigits(clean)
    IN  IF StrContains(clean, <<"m", "p", "h">>)
        THEN <<IF digits # <<>> THEN StrToInt(digits) ELSE NoneInt, "mph">>
        ELSE IF StrContains(clean, <<"k", "m", "/", "h">>) \/ StrContains(clean, <<"k", "m", "h">>)
        THEN <<IF digits # <<>> THEN StrToInt(digits) ELSE NoneInt, "km/h">>
        ELSE IF StrIsDigit(clean) THEN <<StrToInt(clean), "km/h">>
        ELSE IF digits # <<>> THEN <<StrToInt(digits), "km/h">>
        ELSE <<NoneInt, "mph">>

\* warning is None, or the text of one of three templates with its numbers.
NoWarning == [text |-> "None", speed_limit |-> 0, unit |-> "", distance |-> 0]

\* The warning with the first of its templates at every distance.
WarningForAlwaysSlowDown(speed_limit, unit, distance) ==
    [text |-> "SLOW DOWN: {speed_limit} {unit} zone in {distance}m",
     speed_limit |-> speed_limit, unit |-> unit, distance |-> distance]

WarningFor(speed_limit, unit, distance) ==
    IF distance <= 300
    THEN [text |-> "SLOW DOWN: {speed_limit} {unit} zone in {distance}m",
          speed_limit |-> speed_limit, unit |-> unit, distance |-> distance]
    ELSE IF distance <= 800
    THEN [text |-> "Speed reduction ahead: {speed_limit} {unit} in ~{distance}m",
          speed_limit |-> speed_limit, unit |-> unit, distance |-> distance]
    ELSE [text |-> "Lower speed zone ({speed_limit} {unit}) approaching",
          speed_limit |-> speed_limit, unit |-> unit, distance |-> 0]

\* The loop over data["elements"] at one distance: acc is upcoming_limits,
\* warning and seen_roads before the loop, the value is what they are after;
\* roads is the way each entry of upcoming_limits was made of.
RECURSIVE AheadScan(_, _, _, _)
AheadScan(c, distance, elements, acc) ==
    IF elements = <<>> THEN acc
    ELSE
    LET road == Head(elements)
        highway_type == road.tags.highway
        maxspeed == road.tags.maxspeed
        road_name == NameOrRef(road.tags, TitleOf(highway_type))
        road_key == road_name \o <<"_">> \o maxspeed
        parsed == ahead_parse(maxspeed)
        added == [seen |-> acc.seen \cup {road_key},
                  roads |-> Append(acc.roads, road),
                  upcoming |-> Append(acc.upcoming,
                      [distance_meters |-> distance, speed_limit |-> parsed[1],
                       road_name |-> sanitize_string(road_name, 50), unit |-> parsed[2],
                       road_type |-> highway_type]),
                  warning |-> IF /\ Truthy(c.current_speed_limit)
                                 /\ parsed[1] < c.current_speed_limit
                                 /\ acc.warning = NoWarning
                              THEN WarningFor(parsed[1], parsed[2], distance)
                              ELSE acc.warning]
    IN  IF road_key \in acc.seen THEN AheadScan(c, distance, Tail(elements), acc)
        ELSE IF ~should_include_road_in_prediction(
                    highway_type, c.current_road_type,
                    calculate_road_bearing(road.geometry), c.bearing)
        THEN AheadScan(c, distance, Tail(elements), acc)
        ELSE IF maxspeed # <<>> /\ parsed[1] = ValueError
        THEN acc    \* the except clause ends the loop
        ELSE IF maxspeed = <<>> \/ ~Truthy(parsed[1])
        THEN AheadScan(c, distance, Tail(elements), acc)
        ELSE IF c.current_road_type \in HIGHWAY_ROAD_TYPES THEN added
        ELSE AheadScan(c, distance, Tail(elements), added)

(***************************************************************************)
(* query_overpass_with_fallback: the servers and the order they are tried. *)
(***************************************************************************)
\* The public mirrors, four in the source, two here.
PUBLIC_OVERPASS_SERVERS == <<"overpass-api.de", "overpass.kumi.systems">>

SELF_HOSTED_OVERPASS == "self-hosted"

\* OVERPASS_SERVERS under the environment e.
OVERPASS_SERVERS(e) ==
    IF e.self_hosted THEN <<SELF_HOSTED_OVERPASS>> \o PUBLIC_OVERPASS_SERVERS
    ELSE PUBLIC_OVERPASS_SERVERS

\* For how long the last successful server is tried first, in seconds.
AffinityWindow == 300

SeqRange(q) == {q[i] : i \in DOMAIN q}

\* The orders random.shuffle can leave the list in.
Shuffles(servers) ==
    {q \in [1..Len(servers) -> SeqRange(servers)] : SeqRange(q) = SeqRange(servers)}

\* servers.insert(0, url) without servers.remove(url)
MoveToFrontKeeping(servers, url) == <<url>> \o servers

\* servers.remove(url); servers.insert(0, url)
MoveToFront(servers, url) == <<url>> \o SelectSeq(servers, LAMBDA u : u # url)

\* The lists the loop runs on were the last successful server never preferred.
ServerOrdersAlwaysShuffled(e, aff, t) == Shuffles(OVERPASS_SERVERS(e))

\* The lists the loop over servers can run on.
ServerOrders(e, aff, t) ==
    IF aff.url # None /\ t - aff.time < AffinityWindow
    THEN {IF aff.url \in SeqRange(OVERPASS_SERVERS(e))
          THEN MoveToFront(OVERPASS_SERVERS(e), aff.url)
          ELSE OVERPASS_SERVERS(e)}
    ELSE Shuffles(OVERPASS_SERVERS(e))

(***************************************************************************)
(* One invocation of a handler.                                            *)
(***************************************************************************)
\* 90 and 180 degrees in model units.
LatLimit == 360000

LonLimit == 720000

\* ValidCoords without the check of lon.
ValidLatOnly(lat, lon) == -LatLimit <= lat /\ lat <= LatLimit

\* -90 <= lat <= 90 and -180 <= lon <= 180
ValidCoords(lat, lon) ==
    /\ -LatLimit <= lat /\ lat <= LatLimit
    /\ -LonLimit <= lon /\ lon <= LonLimit

NoResponse == [speed_limit |-> NoneInt, unit |-> "", road_name |-> NoneStr, source |-> None,
               road_type |-> None]

NoPrediction == [upcoming_limits |-> <<>>, warning |-> NoWarning, current_direction |-> ""]

\* pc is where the coroutine is suspended: "overpass" in the post to the
\* first of servers, "tomtom" in the get to TomTom; "done" is the instant it
\* returns (outcome "ok"), raises HTTPException 400 ("input_error") or lets
\* an exception out ("exception").  The fields from hit on record what the
\* invocation did.
\* For the query that returned in the last step: whether it returned a body
\* and the servers it posted to, in order.
NoQuery == [ended |-> FALSE, ok |-> FALSE, attempts |-> <<>>]

IdleCall ==
    [pc |-> "idle", op |-> "none", lat |-> 0, lon |-> 0, q |-> 0, servers |-> <<>>,
     outcome |-> "none", response |-> NoResponse,
     hit |-> FALSE, entryTime |-> 0, apiAtStart |-> 0, issued |-> <<>>,
     attempts |-> <<>>, finished |-> NoQuery,
     tomtomCalled |-> FALSE, tomtomGave |-> FALSE,
     explicitSeen |-> FALSE, anyRoadMissing |-> FALSE, drivableMissing |-> FALSE,
     usableSeen |-> FALSE, candidates |-> <<>>, road |-> NoWay,
     bearing |-> 0, current_speed_limit |-> NoneInt, current_road_type |-> None,
     upcoming_limits |-> <<>>, warning |-> NoWarning, seen_roads |-> {},
     answers |-> <<>>, predicted |-> <<>>, asked |-> 0, lookupsAtStart |-> 0,
     began |-> 0, waited |-> 0,
     prediction |-> NoPrediction]

Procs == {1, 2}

NoCfg == [tomtom_key |-> FALSE, self_hosted |-> FALSE]

\* What is kept of a finished invocation.
Summary(c) ==
    [op |-> c.op, lat |-> c.lat, lon |-> c.lon, outcome |-> c.outcome, response |-> c.response,
     prediction |-> c.prediction, hit |-> c.hit, entryTime |-> c.entryTime]

\* last is the invocation finished last, lastTime when it returned, and
\* lastValid whether the cache has not been reset since.
NoHist == [ncalls |-> 0, nticks |-> 0, nresets |-> 0, last |-> Summary(IdleCall), lastTime |-> 0,
           lastValid |-> FALSE]

ResolverIdle ==
    /\ cfg = NoCfg
    /\ calls = [p \in Procs |-> IdleCall]
    /\ hist = NoHist

(***************************************************************************)
(* The state after the module is loaded.                                   *)
(***************************************************************************)
InitShared ==
    /\ now = 0
    /\ speed_limit_cache = <<>>
    /\ cache_stats = [hits |-> 0, misses |-> 0, api_calls |-> 0, api_failures |-> 0,
                      last_reset |-> 0]
    /\ last_successful_server = [url |-> None, time |-> 0]

NoOp == [op |-> "none", n |-> 0, lat |-> 0, lon |-> 0, data |-> NoData, hit |-> FALSE,
         afterPut |-> FALSE, putLat |-> 0, putLon |-> 0, putData |-> NoData, calls |-> 0,
         served |-> get_cache_key(0, 0), prev |-> <<>>]

GeoIdle == [elements |-> <<>>, lat |-> 0, lon |-> 0, ran |-> FALSE, picked |-> 0, road |-> NoWay]

\* The steps time.time() advances by.
TickSteps == {CACHE_TTL_ERROR, CACHE_TTL_NONE, CACHE_TTL_ESTIMATED, CACHE_TTL_EXPLICIT}

(***************************************************************************)
(* SpecCache: Put, Get and reset driven directly, MaxOps operations long.  *)
(***************************************************************************)
\* One result of each source.
SampleData ==
    { [speed_limit |-> 30, unit |-> "mph", road_name |-> <<"A">>, source |-> "openstreetmap"],
      [speed_limit |-> 25, unit |-> "mph", road_name |-> <<"B">>, source |-> "estimated"],
      [speed_limit |-> 31, unit |-> "mph", road_name |-> NoneStr, source |-> "tomtom"],
      [speed_limit |-> NoneInt, unit |-> "mph", road_name |-> NoneStr, source |-> "none"],
      [speed_limit |-> NoneInt, unit |-> "mph", road_name |-> NoneStr, source |-> "error"] }

CacheLats == {0, 1, 2}

CacheLons == {0, 2}

InitCache ==
    /\ InitShared
    /\ lastOp = NoOp
    /\ geo = GeoIdle
    /\ parse = ParseIdle
    /\ ResolverIdle

CachePut(lat, lon, data) ==
    /\ lastOp.n < MaxOps
    /\ speed_limit_cache' = set_cached_speed_limit(speed_limit_cache, now, lat, lon, data)
    /\ lastOp' = [NoOp EXCEPT !.op = "put", !.n = lastOp.n + 1, !.lat = lat, !.lon = lon,
                              !.data = data, !.prev = speed_limit_cache]
    /\ UNCHANGED <<now, cache_stats, last_successful_server, geo, parse, cfg, calls, hist>>

CacheGet(lat, lon) ==
    LET r == get_cached_speed_limit(speed_limit_cache, cache_stats, now, lat, lon)
    IN  /\ lastOp.n < MaxOps
        /\ speed_limit_cache' = r.cache
        /\ cache_stats' = r.stats
        /\ lastOp' = [NoOp EXCEPT !.op = "get", !.n = lastOp.n + 1, !.lat = lat, !.lon = lon,
                                  !.data = r.ret, !.hit = r.hit, !.served = r.key,
                                  !.prev = speed_limit_cache,
                                  !.afterPut = (lastOp.op = "put"),
                                  !.putLat = lastOp.lat, !.putLon = lastOp.lon,
                                  !.putData = lastOp.data,
                                  !.calls = cache_stats.api_calls]
        /\ UNCHANGED <<now, last_successful_server, geo, parse, cfg, calls, hist>>

CacheTick(d) ==
    /\ lastOp.n < MaxOps
    /\ now + d <= MaxTime
    /\ now' = now + d
    /\ lastOp' = [NoOp EXCEPT !.op = "tick", !.n = lastOp.n + 1]
    /\ UNCHANGED <<speed_limit_cache, cache_stats, last_successful_server, geo, parse, cfg, calls, hist>>

\* reset_cache leaving the entries of the dict.
ResetCacheKeepingEntries ==
    /\ speed_limit_cache' = speed_limit_cache
    /\ cache_stats' = [hits |-> 0, misses |-> 0, api_calls |-> 0, api_failures |-> 0,
                       last_reset |-> now]

\* POST /cache-reset
reset_cache ==
    /\ speed_limit_cache' = <<>>
    /\ cache_stats' = [hits |-> 0, misses |-> 0, api_calls |-> 0, api_failures |-> 0,
                       last_reset |-> now]

CacheReset ==
    /\ lastOp.n < MaxOps
    /\ reset_cache
    /\ lastOp' = [NoOp EXCEPT !.op = "reset", !.n = lastOp.n + 1]
    /\ UNCHANGED <<now, last_successful_server, geo, parse, cfg, calls, hist>>

NextCache ==
    \/ \E lat \in CacheLats, lon \in CacheLons, data \in SampleData : CachePut(lat, lon, data)
    \/ \E lat \in CacheLats, lon \in CacheLons : CacheGet(lat, lon)
    \/ \E d \in TickSteps : CacheTick(d)
    \/ CacheReset

SpecCache == InitCache /\ [][NextCache]_vars

\* The cells a coordinate and its eight grid neighbours quantize to.
AbsDiff(a, b) == IF a < b THEN b - a ELSE a - b

KeysAdjacent(k1, k2) == AbsDiff(k1[1], k2[1]) <= 5 /\ AbsDiff(k1[2], k2[2]) <= 5

\* The keys of lat +/- 0.0005, lon +/- 0.0005.
KeysAround(lat, lon) == {get_cache_key(lat + a, lon + b) : a \in {-2, 0, 2}, b \in {-2, 0, 2}}

GetFollowsPut == lastOp.op = "get" /\ lastOp.afterPut

PutKey == get_cache_key(lastOp.putLat, lastOp.putLon)

GetKey == get_cache_key(lastOp.lat, lastOp.lon)

\* The cell of the Put that lastOp is.
PutKeyOfLast == get_cache_key(lastOp.lat, lastOp.lon)

GetReturnsPut ==
    /\ lastOp.hit
    /\ lastOp.data = lastOp.putData
    /\ cache_stats.api_calls = lastOp.calls

\* C3 as stated: Put(lat, lon, r) followed immediately by Get at the same
\* coordinate or at a coordinate in any of the eight neighbouring cells
\* returns r, whatever the source of r, and no upstream call is made.
C3_PutGetAnySource ==
    (GetFollowsPut /\ KeysAdjacent(PutKey, GetKey)) => GetReturnsPut

\* C3 amended: the Get returns r, with no upstream call, when it is made in
\* the cell of the Put, whatever the source of r; when it is made in another
\* cell it returns r if the source of r is neither none nor error, the cell
\* of the Put is among the cells of lat +/- 0.0005, lon +/- 0.0005, and no
\* other of those cells holds an unexpired entry.
C3_PutGetSameOrServableNeighbor ==
    GetFollowsPut =>
        /\ cache_stats.api_calls = lastOp.calls
        /\ PutKey = GetKey => GetReturnsPut
        /\ ( /\ PutKey # GetKey
             /\ PutKey \in KeysAround(lastOp.lat, lastOp.lon)
             /\ lastOp.putData.source \notin {"none", "error"}
             /\ \A k \in KeysAround(lastOp.lat, lastOp.lon) \ {PutKey} :
                    ~EntryFresh(speed_limit_cache, k, now) )
           => GetReturnsPut

\* C3 witness: a Get made right after a Put, in a neighbouring cell,
\* returned the result that was put.
C3_NeighborServed ==
    /\ GetFollowsPut
    /\ PutKey # GetKey
    /\ PutKey[1] # GetKey[1] /\ PutKey[2] # GetKey[2]
    /\ lastOp.hit
    /\ lastOp.data = lastOp.putData
    /\ lastOp.putData.source = "openstreetmap"

\* The Get was answered with an entry stored under another cell than its own.
ServedByNeighbor ==
    /\ lastOp.op = "get"
    /\ lastOp.hit
    /\ lastOp.served # GetKey

\* C20 as stated: Get returns an entry stored under a neighbouring cell only
\* when the source of the entry is Explicit or Estimated; an entry of source
\* None, Error or ExternalProvider is never served to another cell.
C20_NeighborOnlyExplicitOrEstimated ==
    ServedByNeighbor => lastOp.data.source \in {"openstreetmap", "estimated"}

\* C20 amended: Get returns an entry stored under a neighbouring cell only
\* when the source of the entry is neither None nor Error, the entry is
\* unexpired and its own cell holds no unexpired entry; an entry of the
\* external provider is served to another cell as one of source Explicit is.
C20_NeighborUnlessNoneOrError ==
    ServedByNeighbor =>
        /\ lastOp.data.source \notin {"none", "error"}
        /\ lastOp.served \in KeysAround(lastOp.lat, lastOp.lon)
        /\ EntryFresh(speed_limit_cache, lastOp.served, now)
        /\ CacheEntry(speed_limit_cache, lastOp.served).data = lastOp.data
        /\ ~EntryFresh(speed_limit_cache, GetKey, now)

\* C20 witness: a Get was answered with the external provider's entry of a
\* neighbouring cell.
C20_ProviderEntryServedToNeighbor ==
    /\ ServedByNeighbor
    /\ lastOp.data.source = "tomtom"
    /\ lastOp.data.speed_limit = 31

\* The time to live of a source, in seconds, by the text of the contract:
\* Explicit two hours, Estimated and the external provider one hour, None
\* ten minutes, Error five minutes.
TtlBySource(source) ==
    CASE source = "openstreetmap" -> 7200
      [] source = "estimated" -> 3600
      [] source = "tomtom" -> 3600
      [] source = "none" -> 600
      [] source = "error" -> 300

\* The age at the Get of the entry the dict held under k before the Get.
AgeBefore(k) == now - CacheEntry(lastOp.prev, k).timestamp

ExpiredBefore(k) ==
    AgeBefore(k) >= TtlBySource(CacheEntry(lastOp.prev, k).data.source)

\* C21: Get never returns an entry, of the exact cell or of a neighbour,
\* whose age is at least the time to live of its source, and always returns
\* the exact cell's entry while its age is below it; the times to live
\* satisfy Explicit > Estimated > None and Explicit > Estimated > Error.
C21_FreshEntriesOnly ==
    /\ lastOp.op = "get" =>
          /\ lastOp.hit =>
                /\ lastOp.served \in CacheKeys(lastOp.prev)
                /\ lastOp.data = CacheEntry(lastOp.prev, lastOp.served).data
                /\ ~ExpiredBefore(lastOp.served)
          /\ (GetKey \in CacheKeys(lastOp.prev) /\ ~ExpiredBefore(GetKey)) =>
                /\ lastOp.hit
                /\ lastOp.served = GetKey
                /\ lastOp.data = CacheEntry(lastOp.prev, GetKey).data
    /\ get_cache_ttl("openstreetmap") > get_cache_ttl("estimated")
    /\ get_cache_ttl("estimated") > get_cache_ttl("none")
    /\ get_cache_ttl("estimated") > get_cache_ttl("error")

\* C21 witness: a Get found the entry of its own cell at an age of exactly
\* its time to live and returned nothing.
C21_ExpiredAtTtlNotReturned ==
    /\ lastOp.op = "get"
    /\ GetKey \in CacheKeys(lastOp.prev)
    /\ AgeBefore(GetKey) = TtlBySource(CacheEntry(lastOp.prev, GetKey).data.source)
    /\ CacheEntry(lastOp.prev, GetKey).data.source = "openstreetmap"
    /\ ~lastOp.hit

(***************************************************************************)
(* SpecGeo: the road matcher on every candidate list within the bounds.    *)
(***************************************************************************)
SeqsUpTo(S, n) == UNION {[1..k -> S] : k \in 0..n}

GeoPoints == {[lat |-> 0, lon |-> 0], [lat |-> 0, lon |-> 2], [lat |-> 2, lon |-> 0]}

GeoWays == {[tags |-> NoWay.tags, geometry |-> g] : g \in SeqsUpTo(GeoPoints, MaxGeomLen)}

InitGeo ==
    /\ InitShared
    /\ lastOp = NoOp
    /\ ResolverIdle
    /\ parse = ParseIdle
    /\ \E es \in SeqsUpTo(GeoWays, MaxCands), la \in 0..2, lo \in 0..2 :
          geo = [GeoIdle EXCEPT !.elements = es, !.lat = la, !.lon = lo]

RunClosest ==
    /\ ~geo.ran
    /\ geo' = [geo EXCEPT
                  !.ran = TRUE,
                  !.picked = ClosestIndex(geo.elements, geo.lat, geo.lon),
                  !.road = find_closest_road_with_geometry(geo.elements, geo.lat, geo.lon)]
    /\ UNCHANGED <<now, speed_limit_cache, cache_stats, last_successful_server, lastOp, parse,
                   cfg, calls, hist>>

NextGeo == RunClosest

SpecGeo == InitGeo /\ [][NextGeo]_vars

\* The point-to-segment distance itself, squared, in model units: the
\* projection parameter clamped to [0, 1], a zero-length pair being the
\* distance to its point.
SegmentDistance(px, py, x1, y1, x2, y2) ==
    LET dx == x2 - x1
        dy == y2 - y1
        den == dx * dx + dy * dy
        num == (px - x1) * dx + (py - y1) * dy
    IN  IF den = 0 \/ num <= 0
        THEN [n |-> (px - x1) * (px - x1) + (py - y1) * (py - y1), d |-> 1, k |-> 1]
        ELSE IF num >= den
        THEN [n |-> (px - x2) * (px - x2) + (py - y2) * (py - y2), d |-> 1, k |-> 1]
        ELSE [n |-> ((px - x1) * den - num * dx) * ((px - x1) * den - num * dx)
                     + ((py - y1) * den - num * dy) * ((py - y1) * den - num * dy),
              d |-> den * den, k |-> 1]

\* way i of the run is at most as far from the point as way j, by the
\* minimum over all their consecutive point pairs
GeoNoFarther(i, j) ==
    LET d(w, k) == SegmentDistance(geo.lon, geo.lat,
                       geo.elements[w].geometry[k].lon, geo.elements[w].geometry[k].lat,
                       geo.elements[w].geometry[k + 1].lon, geo.elements[w].geometry[k + 1].lat)
    IN  \E k \in 1..(Len(geo.elements[i].geometry) - 1) :
            \A m \in 1..(Len(geo.elements[j].geometry) - 1) : DistLeq(d(i, k), d(j, m))

GeoUsable == {i \in 1..Len(geo.elements) : Len(geo.elements[i].geometry) >= 2}

\* C10: ClosestRoad returns a candidate with at least 2 geometry points whose
\* minimum point-to-segment distance (zero-length pairs included) is the
\* smallest among all such candidates, and none only when there is no such
\* candidate.
C10_ClosestIsNearest ==
    geo.ran =>
        /\ (geo.picked = 0) <=> (GeoUsable = {})
        /\ geo.picked # 0 =>
              /\ geo.picked \in GeoUsable
              /\ geo.road = geo.elements[geo.picked]
              /\ \A j \in GeoUsable : GeoNoFarther(geo.picked, j)

(***************************************************************************)
(* SpecParse: parse_maxspeed on every text within the bounds.              *)
(***************************************************************************)
\* Length of the texts made of any characters.
MaxTextLen == 3

ParseAlphabet == {"3", "0", " ", "m", "p", "h", "K", "^2"}

ParseNumbers == {<<>>, <<"5">>, <<"3", "0">>, <<"1", "2", "0">>, <<"^2">>, <<"5", "^2">>}

ParsePads == {<<>>, <<" ">>}

MphSuffixes == {<<"m", "p", "h">>, <<"M", "P", "H">>}

KmhSuffixes == {<<"k", "m", "/", "h">>, <<"k", "m", "h">>, <<"K", "m", "/", "h">>}

UnrestrictedTexts == {<<"n", "o", "n", "e">>, <<"N", "o", "n", "e">>,
                      <<"u", "n", "l", "i", "m", "i", "t", "e", "d">>}

WalkTexts == {<<"w", "a", "l", "k">>, <<"W", "a", "l", "k">>}

ParseSuffixes ==
    {<<>>, <<"s", "i", "g", "n", "a", "l", "s">>} \cup MphSuffixes \cup KmhSuffixes
        \cup UnrestrictedTexts \cup WalkTexts

\* The text with and without blanks around it.
Padded(t) == {a \o t \o b : a \in ParsePads, b \in ParsePads}

\* The maxspeed tags of the runs: every short text, and a number, a blank
\* and a suffix, each present or not.
ParseTexts ==
    SeqsUpTo(ParseAlphabet, MaxTextLen)
        \cup UNION {Padded(n \o sep \o suf) :
                        n \in ParseNumbers, sep \in ParsePads, suf \in ParseSuffixes}

InitParse ==
    /\ InitShared
    /\ lastOp = NoOp
    /\ geo = GeoIdle
    /\ ResolverIdle
    /\ \E t \in ParseTexts : parse = [ParseIdle EXCEPT !.text = t]

RunParse ==
    /\ ~parse.ran
    /\ parse' = [parse EXCEPT !.ran = TRUE, !.result = parse_maxspeed(parse.text)]
    /\ UNCHANGED <<now, speed_limit_cache, cache_stats, last_successful_server, lastOp, geo,
                   cfg, calls, hist>>

NextParse == RunParse

SpecParse == InitParse /\ [][NextParse]_vars

\* The numbers written in decimal digits.
DecimalNumbers == {n \in ParseNumbers : n # <<>> /\ \A i \in 1..Len(n) : n[i] \in Digits}

\* The text is neither "none", "unlimited" nor "walk", blanks aside.
NoSentinel(t) ==
    SelectSeq(t, LAMBDA ch : ch # " ") \notin UnrestrictedTexts \cup WalkTexts

\* C11: ParseDeclaredLimit of a number with an mph suffix is (n, mph), with
\* a km/h suffix (n, km/h), of a bare number (n, km/h), of "none" and
\* "unlimited" the unrestricted default in mph, of "walk" the pedestrian
\* default, and of a text that is empty or has no digit and is no sentinel, none.
C11_ParseCases ==
    parse.ran =>
        /\ \A n \in DecimalNumbers, sep \in ParsePads :
              /\ \A suf \in MphSuffixes :
                    parse.text \in Padded(n \o sep \o suf)
                        => parse.result = <<DecimalValue(n), "mph">>
              /\ \A suf \in KmhSuffixes :
                    parse.text \in Padded(n \o sep \o suf)
                        => parse.result = <<DecimalValue(n), "km/h">>
              /\ parse.text \in Padded(n) => parse.result = <<DecimalValue(n), "km/h">>
        /\ parse.text \in UNION {Padded(x) : x \in UnrestrictedTexts} => parse.result = <<75, "mph">>
        /\ parse.text \in UNION {Padded(x) : x \in WalkTexts} => parse.result = <<5, "mph">>
        /\ ((\A i \in 1..Len(parse.text) : parse.text[i] \notin Digits) /\ NoSentinel(parse.text))
              => parse.result[1] = NoneInt

\* The cases of C11 on the texts whose digits are all decimal: they hold.
ParseCasesOfDecimalTexts ==
    (\A i \in 1..Len(parse.text) : parse.text[i] \notin SuperDigits) => C11_ParseCases

(***************************************************************************)
(* Spec: client 1 calls /speed-limit or /speed-ahead, with any coordinates, *)
(* under any environment, the servers failing and answering in every way.  *)
(***************************************************************************)
\* Calls of one behaviour.
MaxCalls == 1

\* The ways the servers answer with.
WayMain ==
    [tags |-> [highway |-> "primary", maxspeed |-> <<"3", "0", " ", "m", "p", "h">>,
               name |-> <<"M", "a", "i", "n", " ", "<", "S", "t", ">">>, ref |-> NoneStr],
     geometry |-> <<[lat |-> 0, lon |-> 1], [lat |-> 2, lon |-> 1]>>]

WayZero ==
    [tags |-> [highway |-> "residential", maxspeed |-> <<"0">>,
               name |-> <<"E", "l", "m">>, ref |-> NoneStr],
     geometry |-> <<[lat |-> 1, lon |-> 0], [lat |-> 1, lon |-> 2]>>]

WayNoGeom ==
    [tags |-> [highway |-> "residential", maxspeed |-> <<"5", "0">>,
               name |-> NoneStr, ref |-> <<"B", "1">>],
     geometry |-> <<>>]

WayFoot ==
    [tags |-> [highway |-> "footway", maxspeed |-> <<>>, name |-> NoneStr, ref |-> NoneStr],
     geometry |-> <<[lat |-> 0, lon |-> 0], [lat |-> 0, lon |-> 2]>>]

WayConstruction ==
    [tags |-> [highway |-> "construction", maxspeed |-> <<>>, name |-> NoneStr, ref |-> NoneStr],
     geometry |-> <<[lat |-> 0, lon |-> 0], [lat |-> 2, lon |-> 0]>>]

WayResidential ==
    [tags |-> [highway |-> "residential", maxspeed |-> <<>>, name |-> NoneStr, ref |-> NoneStr],
     geometry |-> <<[lat |-> 2, lon |-> 0], [lat |-> 2, lon |-> 2]>>]

\* A way whose two points are one and the same, away from the user.
WayFarPoint ==
    [tags |-> [highway |-> "tertiary", maxspeed |-> <<>>, name |-> NoneStr, ref |-> NoneStr],
     geometry |-> <<[lat |-> 4, lon |-> 4], [lat |-> 4, lon |-> 4]>>]

WayMotorway ==
    [tags |-> [highway |-> "motorway", maxspeed |-> <<"6", "0", " ", "m", "p", "h">>,
               name |-> NoneStr, ref |-> <<"I", " ", "5">>],
     geometry |-> <<[lat |-> 0, lon |-> 0], [lat |-> 4, lon |-> 0]>>]

WaySide ==
    [tags |-> [highway |-> "residential", maxspeed |-> <<"4", "0">>,
               name |-> <<"S", "i", "d", "e", " ", "S", "t">>, ref |-> NoneStr],
     geometry |-> <<[lat |-> 0, lon |-> 0], [lat |-> 0, lon |-> 4]>>]

\* The motorway again, its maxspeed written without the blank.
WayMotorwayAgain ==
    [tags |-> [highway |-> "motorway", maxspeed |-> <<"6", "0", "m", "p", "h">>,
               name |-> NoneStr, ref |-> <<"I", " ", "5">>],
     geometry |-> <<[lat |-> 4, lon |-> 0], [lat |-> 8, lon |-> 0]>>]

WayTrunk ==
    [tags |-> [highway |-> "trunk", maxspeed |-> <<"4", "5", " ", "m", "p", "h">>,
               name |-> NoneStr, ref |-> <<"A", "1">>],
     geometry |-> <<[lat |-> 0, lon |-> 0], [lat |-> 4, lon |-> 0]>>]

\* A slip road of which the answer has no geometry.
WayRamp ==
    [tags |-> [highway |-> "motorway_link", maxspeed |-> <<"3", "5", " ", "m", "p", "h">>,
               name |-> NoneStr, ref |-> NoneStr],
     geometry |-> <<>>]

\* A motorway without speed limit.
WayAutobahn ==
    [tags |-> [highway |-> "motorway", maxspeed |-> <<"n", "o", "n", "e">>,
               name |-> NoneStr, ref |-> <<"A", " ", "7">>],
     geometry |-> <<[lat |-> 0, lon |-> 0], [lat |-> 4, lon |-> 0]>>]

\* A way whose maxspeed is a superscript two.
WaySuperscript ==
    [tags |-> [highway |-> "motorway", maxspeed |-> <<"^2">>,
               name |-> NoneStr, ref |-> <<"M", "2">>],
     geometry |-> <<[lat |-> 0, lon |-> 1], [lat |-> 2, lon |-> 1]>>]

\* The bodies a server answers a maxspeed query and a highway query with.
\* A motorway with a limit of 70 mph and no geometry.
WayBareMotorway ==
    [tags |-> [highway |-> "motorway", maxspeed |-> <<"7", "0", " ", "m", "p", "h">>,
               name |-> NoneStr, ref |-> <<"M", "1">>],
     geometry |-> <<>>]

MaxspeedBodies ==
    {Body(<<>>), Body(<<WayMain>>), Body(<<WayZero>>), Body(<<WayNoGeom>>),
     Body(<<WayNoGeom, WayBareMotorway>>), Body(<<WaySuperscript>>), BadShape}

HighwayBodies ==
    {Body(<<>>), Body(<<WayFoot>>), Body(<<WayConstruction>>),
     Body(<<WayFoot, WayResidential>>), Body(<<WayResidential, WayFarPoint>>), BadShape}

\* The bodies a server answers a query of /speed-ahead with.
AheadBodies ==
    {Body(<<>>), Body(<<WayMain, WayMotorway>>), Body(<<WaySide, WayMain>>), BadShape}

\* The bodies a server answers a query of /speed-ahead with under SpecAhead.
LookaheadBodies ==
    {Body(<<>>), Body(<<WayMain, WayMotorway>>), Body(<<WaySide, WayMain>>),
     Body(<<WayMotorway, WayTrunk>>), Body(<<WayMotorwayAgain>>), Body(<<WayRamp>>),
     Body(<<WaySuperscript, WayTrunk>>), Body(<<WayAutobahn>>), BadShape}

\* The ways a server does not answer: the three except clauses, and a body
\* response.json() cannot decode.
Failures == {"timeout", "http_error", "rate_limited", "bad_json"}

\* maxSpeedLimitInKmh of TomTom's answer, 0 for every answer without one.
TomTomKmh == {0, 50}

\* The coordinates of the calls: two neighbouring cells, a latitude of 91
\* and a longitude of 181.
CallCoords == {<<0, 0>>, <<2, 0>>, <<364000, 0>>, <<0, 724000>>}

\* The bearing, current_speed_limit and current_road_type of the calls.
AheadBearings == {0, 450}

AheadLimits == {NoneInt, 50}

AheadRoadTypes == {None, "motorway"}

Init ==
    /\ InitShared
    /\ lastOp = NoOp
    /\ geo = GeoIdle
    /\ parse = ParseIdle
    /\ cfg \in [tomtom_key : BOOLEAN, self_hosted : BOOLEAN]
    /\ calls = [p \in Procs |-> IdleCall]
    /\ hist = NoHist

SetCall(p, c) == calls' = [calls EXCEPT ![p] = c]

\* BeginQuery leaving the counter of upstream calls as it is.
BeginQueryNotCounting(p, c, st, aff, entry) ==
    \E order \in ServerOrders(cfg, aff, now) :
        /\ SetCall(p, [c EXCEPT !.pc = "overpass", !.servers = order, !.attempts = <<>>,
                                !.issued = Append(@, entry)])
        /\ cache_stats' = st

\* query_overpass_with_fallback from its entry to its first post: c is the
\* invocation, st the counters and aff the last successful server then.
BeginQuery(p, c, st, aff, entry) ==
    \E order \in ServerOrders(cfg, aff, now) :
        /\ SetCall(p, [c EXCEPT !.pc = "overpass", !.servers = order, !.attempts = <<>>,
                                !.issued = Append(@, entry)])
        /\ cache_stats' = [st EXCEPT !.api_calls = @ + 1]

\* ReturnResult without the write to the dict.
ReturnResultNotCached(p, c, data, road) ==
    /\ UNCHANGED speed_limit_cache
    /\ SetCall(p, [c EXCEPT !.pc = "done", !.outcome = "ok", !.entryTime = now,
                            !.response = SpeedLimitResponse(data), !.road = road])

\* set_cached_speed_limit(lat, lon, result); return SpeedLimitResponse(**result)
ReturnResult(p, c, data, road) ==
    /\ speed_limit_cache' = set_cached_speed_limit(speed_limit_cache, now, c.lat, c.lon, data)
    /\ SetCall(p, [c EXCEPT !.pc = "done", !.outcome = "ok", !.entryTime = now,
                            !.response = SpeedLimitResponse(data), !.road = road])

\* The highway types the estimation resolves from.
DrivableClasses == DOMAIN HIGHWAY_SPEED_DEFAULTS \ NonRoadTypes

HasDrivable(data) ==
    /\ data.shape = "object"
    /\ \E i \in DOMAIN data.elements : data.elements[i].tags.highway \in DrivableClasses

\* The query failed on every server, or was answered with no way.
NoRoad(data) == data.shape = "none" \/ (data.shape = "object" /\ data.elements = <<>>)

\* What the invocation records of the answer data to its query q.
Noted(c, data, found) ==
    LET kind == QueryPlan[c.q].kind
    IN  [c EXCEPT
            !.explicitSeen = @ \/ (kind = "maxspeed" /\ ~NoRoad(data)),
            !.anyRoadMissing = @ \/ (kind = "highway" /\ ~HasElements(data)),
            !.drivableMissing = @ \/ (kind = "highway" /\ ~HasDrivable(data)),
            !.usableSeen = @ \/ found,
            !.candidates = data.elements]

\* get_speed_limit from the return of query_overpass_with_fallback, data, to
\* its next await or its return.
LimitResume(p, c, data, st, aff) ==
        \E r \in {StageResult(c.q, data, c.lat, c.lon)} :
        IF Raises(data) \/ r.raised
        THEN /\ SetCall(p, [Noted(c, data, FALSE) EXCEPT !.pc = "done", !.outcome = "exception"])
             /\ cache_stats' = st
             /\ UNCHANGED speed_limit_cache
        ELSE IF r.found
        THEN /\ ReturnResult(p, Noted(c, data, TRUE), r.data, r.road)
             /\ cache_stats' = st
        ELSE IF c.q < Len(QueryPlan)
        THEN /\ BeginQuery(p, [Noted(c, data, FALSE) EXCEPT !.q = c.q + 1], st, aff,
                           QueryPlan[c.q + 1])
             /\ UNCHANGED speed_limit_cache
        ELSE IF cfg.tomtom_key
        THEN /\ SetCall(p, [Noted(c, data, FALSE) EXCEPT !.pc = "tomtom", !.tomtomCalled = TRUE])
             /\ cache_stats' = st
             /\ UNCHANGED speed_limit_cache
        ELSE /\ ReturnResult(p, Noted(c, data, FALSE), NoneResult, NoWay)
             /\ cache_stats' = st

\* LimitStart joining a call that awaits upstream for the same cell instead
\* of looking up and querying.
LimitStartCoalescing(p, lat, lon) ==
    LET c0 == [IdleCall EXCEPT !.op = "limit", !.lat = lat, !.lon = lon,
                               !.apiAtStart = cache_stats.api_calls,
                               !.lookupsAtStart = cache_stats.hits + cache_stats.misses,
                               !.began = now]
        cached == get_cached_speed_limit(speed_limit_cache, cache_stats, now, lat, lon)
    IN  /\ calls[p].pc = "idle"
        /\ IF ~ValidCoords(lat, lon)
           THEN /\ SetCall(p, [c0 EXCEPT !.pc = "done", !.outcome = "input_error"])
                /\ UNCHANGED <<speed_limit_cache, cache_stats>>
           ELSE IF \E o \in Procs \ {p} :
                      /\ calls[o].pc = "overpass"
                      /\ get_cache_key(calls[o].lat, calls[o].lon) = get_cache_key(lat, lon)
           THEN /\ SetCall(p, [c0 EXCEPT !.pc = "done", !.outcome = "ok", !.hit = TRUE,
                                         !.response = SpeedLimitResponse(NoneResult)])
                /\ UNCHANGED <<speed_limit_cache, cache_stats>>
           ELSE IF cached.hit
           THEN /\ SetCall(p, [c0 EXCEPT
                                  !.pc = "done", !.outcome = "ok", !.hit = TRUE,
                                  !.entryTime = CacheEntry(cached.cache, cached.key).timestamp,
                                  !.response = SpeedLimitResponse(cached.ret)])
                /\ speed_limit_cache' = cached.cache
                /\ cache_stats' = cached.stats
           ELSE /\ speed_limit_cache' = cached.cache
                /\ BeginQuery(p, [c0 EXCEPT !.q = 1], cached.stats, last_successful_server,
                              QueryPlan[1])
        /\ UNCHANGED <<now, last_successful_server, lastOp, geo, parse, cfg, hist>>

\* GET /speed-limit: validation, the cache lookup and, on a miss, the first query.
LimitStart(p, lat, lon) ==
    LET c0 == [IdleCall EXCEPT !.op = "limit", !.lat = lat, !.lon = lon,
                               !.apiAtStart = cache_stats.api_calls,
                               !.lookupsAtStart = cache_stats.hits + cache_stats.misses,
                               !.began = now]
        cached == get_cached_speed_limit(speed_limit_cache, cache_stats, now, lat, lon)
    IN  /\ calls[p].pc = "idle"
        /\ IF ~ValidCoords(lat, lon)
           THEN /\ SetCall(p, [c0 EXCEPT !.pc = "done", !.outcome = "input_error"])
                /\ UNCHANGED <<speed_limit_cache, cache_stats>>
           ELSE IF cached.hit
           THEN /\ SetCall(p, [c0 EXCEPT
                                  !.pc = "done", !.outcome = "ok", !.hit = TRUE,
                                  !.entryTime = CacheEntry(cached.cache, cached.key).timestamp,
                                  !.response = SpeedLimitResponse(cached.ret)])
                /\ speed_limit_cache' = cached.cache
                /\ cache_stats' = cached.stats
           ELSE /\ speed_limit_cache' = cached.cache
                /\ BeginQuery(p, [c0 EXCEPT !.q = 1], cached.stats, last_successful_server,
                              QueryPlan[1])
        /\ UNCHANGED <<now, last_successful_server, lastOp, geo, parse, cfg, hist>>

\* The query of the distance at position q.
AheadQuery(c, q) ==
    [kind |-> "ahead", radius |-> AheadRadius(c.current_road_type),
     distance |-> AheadDistances(c.current_road_type)[q]]

\* AheadStart with a lookup in the dict before its first query.
AheadStartLookingUp(p, lat, lon, bearing, current_speed_limit, current_road_type) ==
    LET c0 == [IdleCall EXCEPT !.op = "ahead", !.lat = lat, !.lon = lon,
                               !.apiAtStart = cache_stats.api_calls,
                               !.lookupsAtStart = cache_stats.hits + cache_stats.misses,
                               !.bearing = NormalizeBearing(bearing), !.asked = bearing,
                               !.current_speed_limit = current_speed_limit,
                               !.current_road_type = current_road_type]
    IN  /\ calls[p].pc = "idle"
        /\ IF ~ValidCoords(lat, lon)
           THEN /\ SetCall(p, [c0 EXCEPT !.pc = "done", !.outcome = "input_error"])
                /\ UNCHANGED cache_stats
           ELSE BeginQuery(p, [c0 EXCEPT !.q = 1],
                           get_cached_speed_limit(speed_limit_cache, cache_stats, now,
                                                  lat, lon).stats,
                           last_successful_server,
                           AheadQuery(c0, 1))
        /\ UNCHANGED <<now, speed_limit_cache, last_successful_server, lastOp, geo, parse, cfg, hist>>

\* GET /speed-ahead: validation and the query of the first distance.
AheadStart(p, lat, lon, bearing, current_speed_limit, current_road_type) ==
    LET c0 == [IdleCall EXCEPT !.op = "ahead", !.lat = lat, !.lon = lon,
                               !.apiAtStart = cache_stats.api_calls,
                               !.lookupsAtStart = cache_stats.hits + cache_stats.misses,
                               !.bearing = NormalizeBearing(bearing), !.asked = bearing,
                               !.current_speed_limit = current_speed_limit,
                               !.current_road_type = current_road_type]
    IN  /\ calls[p].pc = "idle"
        /\ IF ~ValidCoords(lat, lon)
           THEN /\ SetCall(p, [c0 EXCEPT !.pc = "done", !.outcome = "input_error"])
                /\ UNCHANGED cache_stats
           ELSE BeginQuery(p, [c0 EXCEPT !.q = 1], cache_stats, last_successful_server,
                           AheadQuery(c0, 1))
        /\ UNCHANGED <<now, speed_limit_cache, last_successful_server, lastOp, geo, parse, cfg, hist>>

\* get_speed_ahead from the return of query_overpass_with_fallback, data,
\* to its next await or its return: an exception of the processing is
\* caught and the next distance is queried.
AheadResume(p, c, data, st, aff) ==
    LET acc0 == [seen |-> c.seen_roads, roads |-> c.predicted,
                 upcoming |-> c.upcoming_limits, warning |-> c.warning]
    IN  \E acc \in {IF Raises(data) \/ ~HasElements(data) THEN acc0
                    ELSE AheadScan(c, AheadDistances(c.current_road_type)[c.q],
                                   data.elements, acc0)} :
        LET c1 == [c EXCEPT !.seen_roads = acc.seen, !.upcoming_limits = acc.upcoming,
                            !.warning = acc.warning, !.predicted = acc.roads,
                            !.answers = Append(@, data.elements)]
        IN
        /\ UNCHANGED speed_limit_cache
        /\ IF c.q < Len(AheadDistances(c.current_road_type))
           THEN BeginQuery(p, [c1 EXCEPT !.q = c.q + 1], st, aff, AheadQuery(c, c.q + 1))
           ELSE /\ SetCall(p, [c1 EXCEPT
                                  !.pc = "done", !.outcome = "ok",
                                  !.prediction =
                                      [upcoming_limits |-> acc.upcoming,
                                       warning |-> acc.warning,
                                       current_direction |-> bearing_to_direction(c.bearing)]])
                /\ cache_stats' = st

\* What a handler does with the return of query_overpass_with_fallback.
Resume(p, c, data, st, aff) ==
    IF c.op = "limit" THEN LimitResume(p, c, data, st, aff)
    ELSE AheadResume(p, c, data, st, aff)

\* The invocation when its post to the first of servers ends, the wait for
\* it over.
Posted(c) ==
    [c EXCEPT !.attempts = Append(@, Head(c.servers)), !.finished = NoQuery, !.waited = 0]

\* The invocation when its query returns.
Returned(c, ok) ==
    [c EXCEPT !.finished = [ended |-> TRUE, ok |-> ok, attempts |-> c.attempts]]

\* The post to the first of servers fails: the next server is tried, or the
\* query returns None.
ServerFails(p, why) ==
    LET c == Posted(calls[p])
        aff == IF why = "bad_json"
               THEN [url |-> Head(c.servers), time |-> now]
               ELSE last_successful_server
    IN  /\ calls[p].pc = "overpass"
        /\ last_successful_server' = aff
        /\ IF Tail(c.servers) # <<>>
           THEN /\ SetCall(p, [c EXCEPT !.servers = Tail(c.servers)])
                /\ UNCHANGED <<speed_limit_cache, cache_stats>>
           ELSE Resume(p, Returned(c, FALSE), NoBody,
                       [cache_stats EXCEPT !.api_failures = @ + 1], aff)
        /\ UNCHANGED <<now, lastOp, geo, parse, cfg, hist>>

\* The bodies the servers answer the query of c with.
BodiesFor(c) ==
    IF c.op = "ahead" THEN AheadBodies \cup LookaheadBodies
    ELSE IF QueryPlan[c.q].kind = "maxspeed" THEN MaxspeedBodies
    ELSE HighwayBodies

\* The post to the first of servers returns status 200 and the JSON body data.
ServerAnswers(p, data) ==
    LET c == Posted(calls[p])
        aff == [url |-> Head(c.servers), time |-> now]
    IN  /\ calls[p].pc = "overpass"
        /\ data \in BodiesFor(c)
        /\ last_successful_server' = aff
        /\ Resume(p, Returned(c, TRUE), data, cache_stats, aff)
        /\ UNCHANGED <<now, lastOp, geo, parse, cfg, hist>>

\* get_speed_limit_from_tomtom returns.
TomTomResponds(p, kmh) ==
    LET c == calls[p]
        t == tomtom_result(kmh)
    IN  /\ c.pc = "tomtom"
        /\ IF t # NoData /\ Truthy(t.speed_limit)
           THEN ReturnResult(p, [c EXCEPT !.tomtomGave = TRUE], t, NoWay)
           ELSE ReturnResult(p, c, NoneResult, NoWay)
        /\ UNCHANGED <<now, cache_stats, last_successful_server, lastOp, geo, parse, cfg, hist>>

\* The client has the answer.
Finish(p) ==
    /\ calls[p].pc = "done"
    /\ SetCall(p, IdleCall)
    /\ hist' = [hist EXCEPT !.ncalls = @ + 1, !.last = Summary(calls[p]), !.lastTime = now,
                            !.lastValid = TRUE]
    /\ UNCHANGED <<now, speed_limit_cache, cache_stats, last_successful_server, lastOp, geo, parse, cfg>>

Next ==
    \/ /\ hist.ncalls < MaxCalls
       /\ \E ll \in CallCoords : LimitStart(1, ll[1], ll[2])
    \/ /\ hist.ncalls < MaxCalls
       /\ \E ll \in CallCoords, b \in AheadBearings, csl \in AheadLimits,
             crt \in AheadRoadTypes :
             AheadStart(1, ll[1], ll[2], b, csl, crt)
    \/ \E why \in Failures : ServerFails(1, why)
    \/ \E data \in MaxspeedBodies \cup HighwayBodies \cup AheadBodies : ServerAnswers(1, data)
    \/ \E kmh \in TomTomKmh : TomTomResponds(1, kmh)
    \/ Finish(1)

Spec == Init /\ [][Next]_vars

(***************************************************************************)
(* Properties of one call of /speed-limit and /speed-ahead.                *)
(***************************************************************************)
\* The coordinates are in range, written from the text of the contract.
InRange(lat, lon) == lat \in -360000..360000 /\ lon \in -720000..720000

\* Client p has its answer from /speed-limit.
LimitDone(p) == calls[p].pc = "done" /\ calls[p].op = "limit"

\* /speed-limit missed the cache, every maxspeed query returned no road.
NoExplicitRoad(p) ==
    /\ LimitDone(p)
    /\ InRange(calls[p].lat, calls[p].lon)
    /\ ~calls[p].hit
    /\ ~calls[p].explicitSeen

EstimatedNoProvider(p) ==
    /\ calls[p].outcome = "ok"
    /\ calls[p].response.source = "estimated"
    /\ ~calls[p].tomtomCalled

\* C1: a call on an uncached cell in which every explicit-limit query returns
\* no road and every any-road query returns at least one road has source
\* Estimated, and the external provider is not invoked.
C1_AnyRoadGivesEstimated ==
    \A p \in Procs :
        (NoExplicitRoad(p) /\ ~calls[p].anyRoadMissing) => EstimatedNoProvider(p)

\* C1, amended: the same when every any-road query returns at least one
\* drivable road, one whose class is in the estimation table and is not a
\* pedestrian or cycle class.
C1_DrivableRoadGivesEstimated ==
    \A p \in Procs :
        (NoExplicitRoad(p) /\ ~calls[p].drivableMissing) => EstimatedNoProvider(p)

C1_EstimatedBesideFootway ==
    /\ NoExplicitRoad(1) /\ ~calls[1].drivableMissing
    /\ Len(calls[1].issued) = 3
    /\ calls[1].response.source = "estimated"
    /\ calls[1].road = WayResidential

ExplicitRadii == {75, 100, 150, 250}

\* The maxspeed query of radius r is among the first i - 1 queries of c.
TriedBefore(c, r, i) ==
    \E j \in 1..(i - 1) : c.issued[j].kind = "maxspeed" /\ c.issued[j].radius = r

\* C2: no estimation query is issued in a call while an explicit-limit
\* radius, the narrow one or a widening one, is still untried.
C2_EstimationAfterAllExplicit ==
    \A p \in Procs : \A i \in DOMAIN calls[p].issued :
        calls[p].issued[i].kind = "highway"
            => \A r \in ExplicitRadii : TriedBefore(calls[p], r, i)

\* C2, amended: the estimation query of a radius is issued only after the
\* explicit-limit queries of the narrow radius and of every widening radius
\* up to that radius, and a result Estimated comes from the last query issued.
C2_EstimationAfterExplicitUpToRadius ==
    \A p \in Procs :
        /\ \A i \in DOMAIN calls[p].issued :
              calls[p].issued[i].kind = "highway"
                  => \A r \in ExplicitRadii :
                        r <= calls[p].issued[i].radius => TriedBefore(calls[p], r, i)
        /\ (LimitDone(p) /\ ~calls[p].hit /\ calls[p].response.source = "estimated")
              => calls[p].issued[Len(calls[p].issued)].kind = "highway"

C2_EstimatedAtSecondWidening ==
    /\ LimitDone(1) /\ ~calls[1].hit
    /\ calls[1].response.source = "estimated"
    /\ Len(calls[1].issued) = 5
    /\ calls[1].issued[5].radius = 150

\* C5: a call of either handler with lat or lon out of range ends in the
\* input error at once, and leaves the cache, the counters and the last
\* successful server as they were.
C5_InvalidCoordsRejected ==
    [][\A p \in Procs :
        (/\ calls[p].pc = "idle"
         /\ calls'[p].pc # "idle"
         /\ ~InRange(calls'[p].lat, calls'[p].lon))
        => /\ calls'[p].pc = "done"
           /\ calls'[p].outcome = "input_error"
           /\ UNCHANGED <<speed_limit_cache, cache_stats, last_successful_server>>]_vars

C5_AheadRejected ==
    /\ calls[1].pc = "done" /\ calls[1].op = "ahead"
    /\ calls[1].lon = 724000
    /\ calls[1].outcome = "input_error"
    /\ calls[1].issued = <<>>

DefinedSources == {"openstreetmap", "estimated", "tomtom", "none", "error"}

\* C6: with coordinates in range neither handler ends in an error, whatever
\* the servers and the external provider do: /speed-limit returns a result
\* of a defined source and /speed-ahead returns a list of predictions.
C6_NeverAnError ==
    \A p \in Procs :
        (calls[p].pc = "done" /\ InRange(calls[p].lat, calls[p].lon))
        => /\ calls[p].outcome = "ok"
           /\ calls[p].op = "limit" => calls[p].response.source \in DefinedSources

\* C7: when every query of a call fails or yields no usable road and the
\* external provider yields nothing or is not configured, the call returns
\* source None with limit null, and the cache holds that result under the
\* key of the cell.
C7_ExhaustionGivesNone ==
    \A p \in Procs :
        (/\ LimitDone(p) /\ InRange(calls[p].lat, calls[p].lon)
         /\ ~calls[p].hit /\ ~calls[p].usableSeen /\ ~calls[p].tomtomGave)
        => /\ calls[p].outcome = "ok"
           /\ calls[p].response.source = "none"
           /\ calls[p].response.speed_limit = NoneInt
           /\ get_cache_key(calls[p].lat, calls[p].lon) \in CacheKeys(speed_limit_cache)
           /\ CacheEntry(speed_limit_cache, get_cache_key(calls[p].lat, calls[p].lon)).data
                  = NoneResult

\* limit is null exactly for the sources None and Error, and positive for
\* the sources Explicit, Estimated and ExternalProvider.
LimitMatchesSource(r) ==
    /\ r.speed_limit = NoneInt <=> r.source \in {"none", "error"}
    /\ r.source \in {"openstreetmap", "estimated", "tomtom"} => r.speed_limit > 0

\* C8: every result /speed-limit returns and every result in the cache has
\* limit null if and only if its source is None or Error, and a positive
\* limit when its source is Explicit, Estimated or ExternalProvider.
C8_LimitNullIffNoSource ==
    /\ \A p \in Procs :
          (LimitDone(p) /\ calls[p].outcome = "ok") => LimitMatchesSource(calls[p].response)
    /\ \A i \in DOMAIN speed_limit_cache : LimitMatchesSource(speed_limit_cache[i].data)

C8_ProviderAfterUnusableWays ==
    /\ LimitDone(1) /\ calls[1].outcome = "ok"
    /\ calls[1].explicitSeen /\ ~calls[1].usableSeen
    /\ calls[1].response.source = "tomtom"
    /\ calls[1].response.speed_limit = 31
    /\ speed_limit_cache[1].data.source = "tomtom"

\* (lat, lon) is at most as far from the way of geometry g as from the way
\* of geometry h, by the minimum over all their consecutive point pairs.
NoFarther(g, h, lat, lon) ==
    \E k \in 1..(Len(g) - 1) : \A m \in 1..(Len(h) - 1) :
        DistLeq(SegmentDistance(lon, lat, g[k].lon, g[k].lat, g[k + 1].lon, g[k + 1].lat),
                SegmentDistance(lon, lat, h[m].lon, h[m].lat, h[m + 1].lon, h[m + 1].lat))

\* /speed-limit resolved a result of source Estimated from an answer.
EstimatedDone(p) ==
    /\ LimitDone(p)
    /\ calls[p].outcome = "ok"
    /\ ~calls[p].hit
    /\ calls[p].response.source = "estimated"

\* The drivable candidates of the answer the result was resolved from.
DrivableCandidates(p) ==
    {i \in DOMAIN calls[p].candidates :
        calls[p].candidates[i].tags.highway \in DrivableClasses}

\* The way chosen is a drivable candidate, and the closest of those with geometry.
ChosenIsNearest(p) ==
    /\ \E i \in DrivableCandidates(p) : calls[p].candidates[i] = calls[p].road
    /\ \A j \in DrivableCandidates(p) :
          Len(calls[p].candidates[j].geometry) >= 2 =>
              /\ Len(calls[p].road.geometry) >= 2
              /\ NoFarther(calls[p].road.geometry, calls[p].candidates[j].geometry,
                           calls[p].lat, calls[p].lon)

EstimatedFromTable(p) ==
    /\ calls[p].response.speed_limit = HIGHWAY_SPEED_DEFAULTS[calls[p].road.tags.highway]
    /\ calls[p].response.unit = "mph"
    /\ calls[p].road.tags.highway \notin
          {"footway", "cycleway", "path", "steps", "pedestrian", "bridleway"}

\* C12: a result of source Estimated has the class default of the chosen
\* road, the geometrically closest drivable candidate of the answer, in
\* mph, and the chosen road is of no pedestrian or cycle class.
C12_EstimatedOfNearestDrivable ==
    \A p \in Procs : EstimatedDone(p) => EstimatedFromTable(p) /\ ChosenIsNearest(p)

\* C12 without the geometry: the limit is the class default of the chosen
\* road, in mph, the chosen road being a drivable candidate.  It holds.
EstimatedOfChosenDrivable ==
    \A p \in Procs : EstimatedDone(p) =>
        /\ EstimatedFromTable(p)
        /\ \E i \in DrivableCandidates(p) : calls[p].candidates[i] = calls[p].road

\* C12 on the answers no way of which has two equal consecutive points.  It holds.
EstimatedOfNearestUnlessDegenerate ==
    \A p \in Procs :
        ( /\ EstimatedDone(p)
          /\ \A j \in DrivableCandidates(p) :
                \A k \in 1..(Len(calls[p].candidates[j].geometry) - 1) :
                    calls[p].candidates[j].geometry[k] # calls[p].candidates[j].geometry[k + 1] )
        => EstimatedFromTable(p) /\ ChosenIsNearest(p)

\* C9: a result of source Estimated or Explicit has a roadClass, the highway
\* class of the way it was derived from.
C9_RoadClassOfResult ==
    \A p \in Procs :
        (/\ LimitDone(p) /\ calls[p].outcome = "ok" /\ ~calls[p].hit
         /\ calls[p].response.source \in {"estimated", "openstreetmap"})
        => /\ calls[p].response.road_type # None
           /\ calls[p].response.road_type = calls[p].road.tags.highway

\* /speed-limit returned a result to client p that it did not take from the dict.
ResolvedUpstream(p) ==
    /\ LimitDone(p)
    /\ calls[p].outcome = "ok"
    /\ ~calls[p].hit

\* The dict holds, under the cell of the call of p, the result returned to p.
HeldUnderOwnCell(p) ==
    LET key == get_cache_key(calls[p].lat, calls[p].lon)
    IN  /\ key \in CacheKeys(speed_limit_cache)
        /\ CacheEntry(speed_limit_cache, key).data.speed_limit = calls[p].response.speed_limit
        /\ CacheEntry(speed_limit_cache, key).data.unit = calls[p].response.unit
        /\ CacheEntry(speed_limit_cache, key).data.road_name = calls[p].response.road_name
        /\ CacheEntry(speed_limit_cache, key).data.source = calls[p].response.source
        /\ CacheEntry(speed_limit_cache, key).timestamp = now

\* C23: when a ResolveCurrent call with valid input that was not answered
\* from the cache returns r, the cache holds r under the quantized key of
\* (lat, lon), whichever stage produced r.
C23_ResultCachedUnderOwnKey ==
    \A p \in Procs : ResolvedUpstream(p) => HeldUnderOwnCell(p)

\* C23 witness: the external provider's result was returned and is held.
C23_ProviderResultCached ==
    /\ ResolvedUpstream(1)
    /\ calls[1].tomtomGave
    /\ calls[1].response.source = "tomtom"
    /\ HeldUnderOwnCell(1)

(***************************************************************************)
(* SpecRepeat: client 1 calls /speed-limit MaxRepeat times in two          *)
(* neighbouring cells, the first server answering every query, the clock   *)
(* advancing and the cache being reset between the calls.                  *)
(***************************************************************************)
MaxRepeat == 3

MaxTicks == 2

MaxResets == 1

RepeatCoords == {<<0, 0>>, <<2, 0>>}

RepeatBodies == {Body(<<>>), Body(<<WayMain>>), Body(<<WayFoot, WayResidential>>)}

\* The steps of the clock between the calls.
RepeatTicks == {CACHE_TTL_ERROR, CACHE_TTL_ESTIMATED}

InitRepeat ==
    /\ InitShared
    /\ lastOp = NoOp
    /\ geo = GeoIdle
    /\ parse = ParseIdle
    /\ cfg \in {[tomtom_key |-> k, self_hosted |-> FALSE] : k \in BOOLEAN}
    /\ calls = [p \in Procs |-> IdleCall]
    /\ hist = NoHist

AllIdle == \A p \in Procs : calls[p].pc = "idle"

Tick(d) ==
    /\ AllIdle
    /\ hist.nticks < MaxTicks
    /\ now + d <= MaxTime
    /\ now' = now + d
    /\ hist' = [hist EXCEPT !.nticks = @ + 1]
    /\ UNCHANGED <<speed_limit_cache, cache_stats, last_successful_server, lastOp, geo, parse, cfg, calls>>

Reset ==
    /\ AllIdle
    /\ hist.nresets < MaxResets
    /\ reset_cache
    /\ hist' = [hist EXCEPT !.nresets = @ + 1, !.lastValid = FALSE]
    /\ UNCHANGED <<now, last_successful_server, lastOp, geo, parse, cfg, calls>>

NextRepeat ==
    \/ /\ hist.ncalls < MaxRepeat
       /\ \E ll \in RepeatCoords : LimitStart(1, ll[1], ll[2])
    \/ \E data \in RepeatBodies : ServerAnswers(1, data)
    \/ \E kmh \in TomTomKmh : TomTomResponds(1, kmh)
    \/ Finish(1)
    \/ \E d \in RepeatTicks : Tick(d)
    \/ Reset

SpecRepeat == InitRepeat /\ [][NextRepeat]_vars

\* The call client 1 has its answer from, and the call finished before it,
\* which returned a result at the same coordinates with no reset since.
SecondOfTwo ==
    /\ LimitDone(1)
    /\ hist.ncalls >= 1 /\ hist.lastValid
    /\ hist.last.op = "limit" /\ hist.last.outcome = "ok"
    /\ hist.last.lat = calls[1].lat /\ hist.last.lon = calls[1].lon

\* The time to live of a result, by its source.
TtlOf(source) ==
    CASE source = "openstreetmap" -> 7200
      [] source = "estimated" -> 3600
      [] source = "tomtom" -> 3600
      [] source = "none" -> 600
      [] source = "error" -> 300

NoUpstreamSameResult ==
    /\ calls[1].apiAtStart = cache_stats.api_calls
    /\ calls[1].outcome = "ok"
    /\ calls[1].response = hist.last.response

\* C4: of two calls at the same coordinate, the second made within the TTL of
\* the source of the first call's result, counted from the first call, the
\* second issues no upstream call and returns the result of the first.
C4_SecondWithinTtlOfFirstCall ==
    (SecondOfTwo /\ now - hist.lastTime < TtlOf(hist.last.response.source))
        => NoUpstreamSameResult

\* C4, amended: the same with the TTL counted from the time the cache entry
\* of the first call's result was stored.
C4_SecondWithinTtlOfEntry ==
    (SecondOfTwo /\ now - hist.last.entryTime < TtlOf(hist.last.response.source))
        => NoUpstreamSameResult

C4_SecondServedFromCache ==
    /\ SecondOfTwo
    /\ now > hist.lastTime
    /\ hist.lastTime > hist.last.entryTime
    /\ now - hist.last.entryTime < TtlOf(hist.last.response.source)
    /\ hist.last.hit
    /\ calls[1].hit
    /\ NoUpstreamSameResult

(***************************************************************************)
(* SpecQuery: query_overpass_with_fallback, called three times by each     *)
(* /speed-ahead, the servers failing in every way and the clock moving at  *)
(* any moment, with and without a self-hosted server.                      *)
(***************************************************************************)
\* Number of calls of /speed-ahead.
MaxQueryCalls == 2

\* The steps of the clock: half the affinity window, and all of it.
QueryTicks == {150, AffinityWindow}

InitQuery ==
    /\ InitShared
    /\ lastOp = NoOp
    /\ geo = GeoIdle
    /\ parse = ParseIdle
    /\ cfg \in {[tomtom_key |-> FALSE, self_hosted |-> h] : h \in BOOLEAN}
    /\ calls = [p \in Procs |-> IdleCall]
    /\ hist = NoHist

\* time.time() moves on, at any moment.
Elapse(d) ==
    /\ hist.nticks < MaxTicks
    /\ now + d <= MaxTime
    /\ now' = now + d
    /\ hist' = [hist EXCEPT !.nticks = @ + 1]
    /\ UNCHANGED <<speed_limit_cache, cache_stats, last_successful_server, lastOp, geo, parse,
                   cfg, calls>>

NextQuery ==
    \/ /\ hist.ncalls < MaxQueryCalls
       /\ AheadStart(1, 0, 0, 0, NoneInt, None)
    \/ \E why \in Failures : ServerFails(1, why)
    \/ ServerAnswers(1, Body(<<>>))
    \/ Finish(1)
    \/ \E d \in QueryTicks : Elapse(d)

SpecQuery == InitQuery /\ [][NextQuery]_vars

\* The endpoints of the pool.
Pool == SeqRange(OVERPASS_SERVERS(cfg))

NoRepeat(q) == \A i, j \in DOMAIN q : i # j => q[i] # q[j]

\* C13: within one Query each endpoint of the pool is attempted at most once;
\* the Query returns success at the first endpoint that answers, attempting
\* none after it, and returns failure only after every endpoint of the pool
\* has been attempted exactly once.
C13_EachEndpointOnce ==
    \A p \in Procs :
        /\ NoRepeat(calls[p].attempts)
        /\ SeqRange(calls[p].attempts) \subseteq Pool
        /\ calls[p].finished.ended =>
              /\ NoRepeat(calls[p].finished.attempts)
              /\ SeqRange(calls[p].finished.attempts) \subseteq Pool
              /\ calls[p].finished.attempts # <<>>
              /\ calls[p].finished.ok =>
                    last_successful_server.url =
                        calls[p].finished.attempts[Len(calls[p].finished.attempts)]
              /\ ~calls[p].finished.ok => SeqRange(calls[p].finished.attempts) = Pool

\* C13 witness: with three endpoints, a Query returned the answer of the
\* second it attempted, the first having failed and the third left alone.
C13_SuccessAtSecondOfThree ==
    /\ Cardinality(Pool) = 3
    /\ calls[1].finished.ended
    /\ calls[1].finished.ok
    /\ Len(calls[1].finished.attempts) = 2

\* A Query of client p has started and has not posted yet.
QueryJustStarted(p) == calls[p].pc = "overpass" /\ calls[p].attempts = <<>>

\* C14: at the start of a Query, an endpoint that succeeded less than five
\* minutes ago is the first one attempted; otherwise the order is a
\* permutation of the whole pool.
C14_AffinityFirstElseShuffle ==
    \A p \in Procs :
        QueryJustStarted(p) =>
            IF last_successful_server.url # None /\ now - last_successful_server.time < 5 * 60
            THEN Head(calls[p].servers) = last_successful_server.url
            ELSE /\ NoRepeat(calls[p].servers)
                 /\ SeqRange(calls[p].servers) = Pool

\* C14 witness: a Query starts with the endpoint that succeeded 150 seconds
\* ago, which is not the first of the pool as configured.
C14_RecentEndpointFirst ==
    /\ QueryJustStarted(1)
    /\ last_successful_server.url # None
    /\ now - last_successful_server.time = 150
    /\ Head(calls[1].servers) = last_successful_server.url
    /\ last_successful_server.url # OVERPASS_SERVERS(cfg)[1]

\* A Query starts with another endpoint than the one that succeeded five
\* minutes ago or earlier: the pool was shuffled.  This state is reached.
StaleEndpointNotFirst ==
    /\ QueryJustStarted(1)
    /\ last_successful_server.url # None
    /\ now - last_successful_server.time >= 5 * 60
    /\ Head(calls[1].servers) # last_successful_server.url

(***************************************************************************)
(* SpecAhead: one call of /speed-ahead at a valid point, with every        *)
(* bearing, current limit and current road type of the sets below, each of *)
(* its three queries failing or answered with any of LookaheadBodies.      *)
(***************************************************************************)
LookaheadBearings == {0, 40}

InitAhead ==
    /\ InitShared
    /\ lastOp = NoOp
    /\ geo = GeoIdle
    /\ parse = ParseIdle
    /\ cfg = NoCfg
    /\ calls = [p \in Procs |-> IdleCall]
    /\ hist = NoHist

NextAhead ==
    \/ /\ hist.ncalls < MaxCalls
       /\ \E b \in LookaheadBearings, csl \in AheadLimits, crt \in AheadRoadTypes :
             AheadStart(1, 0, 0, b, csl, crt)
    \/ ServerFails(1, "timeout")
    \/ \E data \in LookaheadBodies : ServerAnswers(1, data)
    \/ Finish(1)

SpecAhead == InitAhead /\ [][NextAhead]_vars

\* Client p has its answer from /speed-ahead.
AheadDone(p) == calls[p].pc = "done" /\ calls[p].op = "ahead" /\ calls[p].outcome = "ok"

LimitedAccess == {"motorway", "motorway_link", "trunk", "trunk_link"}

\* ... and was on a limited-access road.
OnLimitedAccess(p) == AheadDone(p) /\ calls[p].current_road_type \in LimitedAccess

\* The angle between the line of bearing rb and the direction tb, in degrees.
Deviation(rb, tb) ==
    LET d == (rb - tb) % 180
    IN  IF d <= 90 THEN d ELSE 180 - d

BearingKnown(w) == Len(w.geometry) >= 2

AlignedStrictly(w, tb) ==
    BearingKnown(w) /\ Deviation(calculate_road_bearing(w.geometry), tb) <= 35

\* C15: on a limited-access road, every prediction is of a limited-access
\* road whose bearing is aligned with the travel bearing within the strict
\* tolerance.
C15_OnlyAlignedLimitedAccess ==
    \A p \in Procs : OnLimitedAccess(p) =>
        \A i \in DOMAIN calls[p].prediction.upcoming_limits :
            /\ calls[p].prediction.upcoming_limits[i].road_type \in LimitedAccess
            /\ AlignedStrictly(calls[p].predicted[i], calls[p].bearing)

\* C15, amended: ... or of a limited-access road of which the answer has
\* fewer than two geometry points, whose bearing cannot be determined.
C15_AlignedOrNoBearing ==
    \A p \in Procs : OnLimitedAccess(p) =>
        \A i \in DOMAIN calls[p].prediction.upcoming_limits :
            /\ calls[p].prediction.upcoming_limits[i].road_type \in LimitedAccess
            /\ \/ ~BearingKnown(calls[p].predicted[i])
               \/ AlignedStrictly(calls[p].predicted[i], calls[p].bearing)

\* C15 witness: on a motorway, a side street and a primary road were among
\* the answers, and the predictions are an aligned motorway and a slip road
\* without geometry.
C15_RampWithoutGeometryPredicted ==
    /\ OnLimitedAccess(1)
    /\ \E k \in DOMAIN calls[1].answers : \E m \in DOMAIN calls[1].answers[k] :
          calls[1].answers[k][m].tags.highway = "residential"
    /\ \E i \in DOMAIN calls[1].predicted : ~BearingKnown(calls[1].predicted[i])
    /\ \E i \in DOMAIN calls[1].predicted :
          AlignedStrictly(calls[1].predicted[i], calls[1].bearing)

\* The limit and the name a prediction made of the way w has.
DeclaredLimit(w) == parse_maxspeed(w.tags.maxspeed)[1]

PredictedName(w) == sanitize_string(NameOrRef(w.tags, TitleOf(w.tags.highway)), 50)

\* The prediction e has the (roadName, limit) of the way w.
SamePair(e, w) == e.road_name = PredictedName(w) /\ e.speed_limit = DeclaredLimit(w)

\* The way carries a declared limit that parses to a number.
Parseable(w) == w.tags.maxspeed # <<>> /\ DeclaredLimit(w) \notin {NoneInt, ValueError}

\* The distance of the k-th query of client p.
DistanceOf(p, k) == AheadDistances(calls[p].current_road_type)[k]

\* A prediction of the (roadName, limit) of w at the distance of query k or before.
PredictedBy(p, k, w) ==
    \E j \in DOMAIN calls[p].prediction.upcoming_limits :
        /\ SamePair(calls[p].prediction.upcoming_limits[j], w)
        /\ calls[p].prediction.upcoming_limits[j].distance_meters <= DistanceOf(p, k)

Eligible(w, tb) ==
    /\ w.tags.highway \in LimitedAccess
    /\ ~BearingKnown(w) \/ AlignedStrictly(w, tb)
    /\ Parseable(w)
    /\ \E i \in DOMAIN w.tags.maxspeed : w.tags.maxspeed[i] \in Digits
    /\ DeclaredLimit(w) # 0

\* The handler fails on the way: limited-access, aligned or of no bearing,
\* its declared limit made of digits that are no decimal digits.
Failing(w, tb) ==
    /\ w.tags.highway \in LimitedAccess
    /\ ~BearingKnown(w) \/ AlignedStrictly(w, tb)
    /\ w.tags.maxspeed # <<>>
    /\ DeclaredLimit(w) = ValueError

C17_AscendingDistances ==
    \A p \in Procs : AheadDone(p) =>
        \A i, j \in DOMAIN calls[p].prediction.upcoming_limits :
            i < j => calls[p].prediction.upcoming_limits[i].distance_meters
                        <= calls[p].prediction.upcoming_limits[j].distance_meters

\* C17 witness: the first query gave a prediction, the second failed on
\* every server and the third gave another prediction.
C17_PredictionsAroundFailure ==
    /\ AheadDone(1)
    /\ Len(calls[1].prediction.upcoming_limits) >= 2
    /\ calls[1].prediction.upcoming_limits[1].distance_meters = DistanceOf(1, 1)
    /\ calls[1].answers[2] = <<>>
    /\ cache_stats.api_failures >= 1
    /\ \E j \in DOMAIN calls[1].prediction.upcoming_limits :
          calls[1].prediction.upcoming_limits[j].distance_meters = DistanceOf(1, 3)

\* C18: no two predictions have the same (roadName, limit), as returned.
C18_NoTwoSamePair ==
    \A p \in Procs : AheadDone(p) =>
        \A i, j \in DOMAIN calls[p].prediction.upcoming_limits :
            i # j =>
                \/ calls[p].prediction.upcoming_limits[i].road_name
                      # calls[p].prediction.upcoming_limits[j].road_name
                \/ calls[p].prediction.upcoming_limits[i].speed_limit
                      # calls[p].prediction.upcoming_limits[j].speed_limit

\* No two predictions are made of ways of the same name (or ref) and the
\* same maxspeed text.  It holds.
NoTwoSameTags ==
    \A p \in Procs : AheadDone(p) =>
        \A i, j \in DOMAIN calls[p].predicted :
            i # j =>
                \/ NameOrRef(calls[p].predicted[i].tags, TitleOf(calls[p].predicted[i].tags.highway))
                      # NameOrRef(calls[p].predicted[j].tags, TitleOf(calls[p].predicted[j].tags.highway))
                \/ calls[p].predicted[i].tags.maxspeed # calls[p].predicted[j].tags.maxspeed

\* currentLimit is supplied.
Supplied(p) == calls[p].current_speed_limit # NoneInt

\* The urgency of a warning, 1 the most urgent.
WarningTier(w) ==
    CASE w.text = "SLOW DOWN: {speed_limit} {unit} zone in {distance}m" -> 1
      [] w.text = "Speed reduction ahead: {speed_limit} {unit} in ~{distance}m" -> 2
      [] w.text = "Lower speed zone ({speed_limit} {unit}) approaching" -> 3

\* The urgency a distance calls for: never less urgent for a smaller distance.
UrgencyOf(distance) == IF distance <= 300 THEN 1 ELSE IF distance <= 800 THEN 2 ELSE 3

\* C19: there is a warning if and only if currentLimit is supplied and the
\* first prediction has a limit lower than currentLimit; its urgency is
\* that of the distance of that prediction.
C19_WarningOfNearest ==
    \A p \in Procs : AheadDone(p) =>
        /\ calls[p].prediction.warning # NoWarning
              <=> /\ Supplied(p)
                  /\ calls[p].prediction.upcoming_limits # <<>>
                  /\ calls[p].prediction.upcoming_limits[1].speed_limit
                        < calls[p].current_speed_limit
        /\ calls[p].prediction.warning # NoWarning =>
              WarningTier(calls[p].prediction.warning)
                  = UrgencyOf(calls[p].prediction.upcoming_limits[1].distance_meters)

\* The predictions of a limit lower than currentLimit.
LowerLimits(p) ==
    {i \in DOMAIN calls[p].prediction.upcoming_limits :
        calls[p].prediction.upcoming_limits[i].speed_limit < calls[p].current_speed_limit}

\* C19, amended: there is a warning if and only if currentLimit is supplied
\* and some prediction has a limit lower than currentLimit; it is about the
\* first such prediction of the list, and its urgency is that of the
\* distance of that prediction.
C19_WarningOfFirstLower ==
    \A p \in Procs : AheadDone(p) =>
        /\ calls[p].prediction.warning # NoWarning <=> (Supplied(p) /\ LowerLimits(p) # {})
        /\ calls[p].prediction.warning # NoWarning =>
              /\ calls[p].prediction.warning.speed_limit
                    = calls[p].prediction.upcoming_limits[MinOf(LowerLimits(p))].speed_limit
              /\ WarningTier(calls[p].prediction.warning)
                    = UrgencyOf(calls[p].prediction.upcoming_limits[MinOf(LowerLimits(p))].distance_meters)

\* C19 witness: the first prediction is not below currentLimit, a later and
\* farther one is, and the warning is about that one.
C19_WarningFromLaterPrediction ==
    /\ AheadDone(1)
    /\ calls[1].prediction.warning # NoWarning
    /\ calls[1].prediction.upcoming_limits[1].speed_limit >= calls[1].current_speed_limit
    /\ WarningTier(calls[1].prediction.warning) > 1

(***************************************************************************)
(* SpecEvict: results are put in more cells than the dict may hold, at     *)
(* different times.                                                        *)
(***************************************************************************)
\* Puts and clock steps of one behaviour.
MaxEvictOps == 11

\* The latest time of a put.
MaxEvictTime == 2

\* The latitudes of the puts: one cell more than the dict holds when its
\* size is checked.
EvictLats == {2 * i : i \in 0..(CACHE_MAX_SIZE + 1)}

EvictData == [speed_limit |-> 30, unit |-> "mph", road_name |-> <<"A">>,
              source |-> "openstreetmap"]

InitEvict ==
    /\ InitShared
    /\ lastOp = NoOp
    /\ geo = GeoIdle
    /\ parse = ParseIdle
    /\ ResolverIdle

\* The cells are alike to the dict: a put goes to a cell that is held or to
\* the first cell that is not.
EvictTargets ==
    LET free == {lat \in EvictLats : get_cache_key(lat, 0) \notin CacheKeys(speed_limit_cache)}
    IN  {lat \in EvictLats : lat \notin free \/ \A other \in free : lat <= other}

EvictPut(lat) ==
    /\ lastOp.n < MaxEvictOps
    /\ lat \in EvictTargets
    /\ speed_limit_cache' = set_cached_speed_limit(speed_limit_cache, now, lat, 0, EvictData)
    /\ lastOp' = [NoOp EXCEPT !.op = "put", !.n = lastOp.n + 1, !.lat = lat,
                              !.data = EvictData, !.prev = speed_limit_cache]
    /\ UNCHANGED <<now, cache_stats, last_successful_server, geo, parse, cfg, calls, hist>>

EvictTick ==
    /\ lastOp.n < MaxEvictOps
    /\ now < MaxEvictTime
    /\ now' = now + 1
    /\ lastOp' = [NoOp EXCEPT !.op = "tick", !.n = lastOp.n + 1]
    /\ UNCHANGED <<speed_limit_cache, cache_stats, last_successful_server, geo, parse, cfg,
                   calls, hist>>

NextEvict ==
    \/ \E lat \in EvictLats : EvictPut(lat)
    \/ EvictTick

SpecEvict == InitEvict /\ [][NextEvict]_vars

\* The Put found more entries than the cap.
PutOverCap == lastOp.op = "put" /\ Len(lastOp.prev) > CACHE_MAX_SIZE

\* The entries the Put removed: held before, not held after, the written key aside.
RemovedByPut ==
    {i \in DOMAIN lastOp.prev :
        /\ lastOp.prev[i].key \notin CacheKeys(speed_limit_cache)}

\* The entries the Put found and left as they were.
KeptByPut ==
    {i \in DOMAIN lastOp.prev :
        /\ lastOp.prev[i].key \in CacheKeys(speed_limit_cache)
        /\ lastOp.prev[i].key # PutKeyOfLast}

\* A fifth of n, rounded down.
FifthOf(n) == (2 * n) \div 10

\* The entry the Put wrote is held, with the time of the Put.
WrittenPresent ==
    /\ PutKeyOfLast \in CacheKeys(speed_limit_cache)
    /\ CacheEntry(speed_limit_cache, PutKeyOfLast).data = lastOp.data
    /\ CacheEntry(speed_limit_cache, PutKeyOfLast).timestamp = now

\* C22: a Put that finds the entry count above the cap removes the oldest
\* 20% of the entries ranked by createdAt in that one Put: every removed
\* entry is at least as old as every entry found and kept, and the entry
\* written is present after the Put; a Put that finds no more entries than
\* the cap removes none.
C22_OldestFifthEvicted ==
    lastOp.op = "put" =>
        /\ WrittenPresent
        /\ \A i \in RemovedByPut, j \in KeptByPut :
              lastOp.prev[i].timestamp <= lastOp.prev[j].timestamp
        /\ PutOverCap =>
              Cardinality({i \in DOMAIN lastOp.prev :
                              \/ i \in RemovedByPut
                              \/ /\ lastOp.prev[i].key = PutKeyOfLast
                                 /\ \A j \in KeptByPut :
                                        lastOp.prev[i].timestamp <= lastOp.prev[j].timestamp})
                  >= FifthOf(Len(lastOp.prev))
        /\ PutOverCap => Cardinality(RemovedByPut) <= FifthOf(Len(lastOp.prev))
        /\ ~PutOverCap => RemovedByPut = {}

\* C22 witness: a Put found more entries than the cap, of different times,
\* removed an entry older than one it kept, and its entry is held.
C22_OldestRemovedNewerKept ==
    /\ PutOverCap
    /\ WrittenPresent
    /\ \E i \in RemovedByPut, j \in KeptByPut :
          lastOp.prev[i].timestamp < lastOp.prev[j].timestamp
    /\ \E i \in RemovedByPut : i > 1

(***************************************************************************)
(* SpecBearing: one call of /speed-ahead at a valid point with a bearing   *)
(* below, in and above the range, each query answered.                     *)
(***************************************************************************)
BearingInputs == {-450, -90, -1, 0, 45, 359, 360, 361, 450, 720}

BearingBodies == {Body(<<>>), Body(<<WayMain, WayMotorway>>), Body(<<WaySide, WayMain>>)}

NextBearing ==
    \/ /\ hist.ncalls < MaxCalls
       /\ \E b \in BearingInputs, crt \in AheadRoadTypes :
             AheadStart(1, 0, 0, b, NoneInt, crt)
    \/ \E data \in BearingBodies : ServerAnswers(1, data)
    \/ Finish(1)

SpecBearing == InitAhead /\ [][NextBearing]_vars

\* Client p is in a call of /speed-ahead that passed the validation.
AheadRunning(p) ==
    /\ calls[p].op = "ahead"
    /\ calls[p].pc \in {"overpass", "done"}
    /\ calls[p].outcome # "input_error"

\* The compass point of a bearing of [0, 360): eight sectors of 45 degrees
\* centred on N, NE, E, SE, S, SW, W, NW.
CompassOf(b) ==
    <<"N", "NE", "E", "SE", "S", "SW", "W", "NW">>[(((2 * b + 45) \div 90) % 8) + 1]

\* The tolerance of the alignment filter of the call of p.
ToleranceOf(p) == IF calls[p].current_road_type \in LimitedAccess THEN 35 ELSE 45

\* C24: for every supplied bearing, exactly 360, negative values and values
\* above 360 included, the travel bearing ResolveAhead uses is in [0, 360).
C24_BearingInHalfOpenRange ==
    \A p \in Procs : AheadRunning(p) =>
        /\ calls[p].bearing >= 0
        /\ calls[p].bearing < 360

\* C24 amended: a supplied bearing outside [0, 360] is reduced modulo 360
\* into [0, 360); one in [0, 360], exactly 360 included, is used as it is;
\* the predictions are filtered by, and the direction reported is that of,
\* the supplied bearing modulo 360.
C24_BearingInClosedRange ==
    \A p \in Procs : AheadRunning(p) =>
        /\ calls[p].bearing \in 0..360
        /\ calls[p].bearing = 360 <=> calls[p].asked = 360
        /\ calls[p].bearing % 360 = calls[p].asked % 360
        /\ AheadDone(p) =>
              /\ calls[p].prediction.current_direction = CompassOf(calls[p].asked % 360)
              /\ \A i \in DOMAIN calls[p].predicted :
                    \/ ~BearingKnown(calls[p].predicted[i])
                    \/ Deviation(calculate_road_bearing(calls[p].predicted[i].geometry),
                                 calls[p].asked % 360) <= ToleranceOf(p)

\* C24 witness: a call with a bearing of exactly 360 used 360, reported N
\* and predicted a road that runs north.
C24_FullTurnKept ==
    /\ AheadDone(1)
    /\ calls[1].asked = 360
    /\ calls[1].bearing = 360
    /\ calls[1].prediction.current_direction = "N"
    /\ \E i \in DOMAIN calls[1].predicted :
          calculate_road_bearing(calls[1].predicted[i].geometry) = 0

(***************************************************************************)
(* Properties of one call under Spec: the cache and the geodata client.    *)
(***************************************************************************)
\* The lookups in the dict, hits and misses, since the call of p began.
LookupsIn(p) == cache_stats.hits + cache_stats.misses - calls[p].lookupsAtStart

\* The call of p has issued a query.
HasQueried(p) == calls[p].pc # "idle" /\ calls[p].issued # <<>>

\* C25: neither ResolveCurrent nor ResolveAhead issues an upstream query in
\* a call without a preceding cache lookup in that same call.
C25_LookupBeforeQuery ==
    \A p \in Procs : HasQueried(p) => LookupsIn(p) >= 1

\* C25 amended: ResolveCurrent issues an upstream query only after one
\* cache lookup of the call, which missed; ResolveAhead makes no cache
\* lookup at all, before its queries or after them.
C25_LookupBeforeQueryOfCurrentOnly ==
    \A p \in Procs :
        /\ (HasQueried(p) /\ calls[p].op = "limit") =>
              /\ LookupsIn(p) = 1
              /\ ~calls[p].hit
              /\ cache_stats.misses >= 1
        /\ (calls[p].pc # "idle" /\ calls[p].op = "ahead") => LookupsIn(p) = 0

\* C25 witness: /speed-ahead has issued its three queries and returned
\* without a lookup.
C25_AheadQueriedWithoutLookup ==
    /\ AheadDone(1)
    /\ Len(calls[1].issued) = 3
    /\ LookupsIn(1) = 0
    /\ cache_stats.api_calls = 3

(***************************************************************************)
(* SpecDeadline: one call of /speed-limit while the servers time out or    *)
(* answer with no road, a post that times out taking the client's timeout. *)
(***************************************************************************)
\* timeout: float = 12.0, in seconds
RequestTimeout == 12

\* The post in flight waits for the client's timeout.
AwaitTimeout ==
    /\ calls[1].pc = "overpass"
    /\ calls[1].waited = 0
    /\ now' = now + RequestTimeout
    /\ SetCall(1, [calls[1] EXCEPT !.waited = RequestTimeout])
    /\ UNCHANGED <<speed_limit_cache, cache_stats, last_successful_server, lastOp, geo, parse,
                   cfg, hist>>

\* httpx.TimeoutException of the post that has waited.
TimeoutFires ==
    /\ calls[1].pc = "overpass"
    /\ calls[1].waited = RequestTimeout
    /\ ServerFails(1, "timeout")

\* The post is answered at once, with no road.
AnswersAtOnce ==
    /\ calls[1].pc = "overpass"
    /\ calls[1].waited = 0
    /\ ServerAnswers(1, Body(<<>>))

NextDeadline ==
    \/ /\ hist.ncalls < MaxCalls
       /\ LimitStart(1, 0, 0)
    \/ AwaitTimeout
    \/ TimeoutFires
    \/ AnswersAtOnce
    \/ Finish(1)

SpecDeadline == InitAhead /\ [][NextDeadline]_vars

\* A deadline that bounds the fan-out: the time of five posts that time out,
\* fewer than a call makes when every post times out.
OverallDeadline == 5 * RequestTimeout

\* The time at which the post in flight of client p was started, counted
\* from the start of the call.
PostStartedAfter(p) == now - calls[p].waited - calls[p].began

\* C26: every ResolveCurrent call ends within a bounded ceiling whatever the
\* network does: once the overall deadline is reached no further endpoint
\* attempt is started, and the call returns Estimated or None.
C26_NoAttemptAfterDeadline ==
    \A p \in Procs :
        /\ (calls[p].op = "limit" /\ calls[p].pc = "overpass") =>
              PostStartedAfter(p) < OverallDeadline
        /\ LimitDone(p) =>
              /\ now - calls[p].began <= OverallDeadline + RequestTimeout
              /\ calls[p].outcome = "ok"
              /\ calls[p].response.source \in {"openstreetmap", "estimated", "tomtom", "none"}

\* Every call ends: within the time of all its posts timing out, every
\* query of the plan over every server.
EndsWithinFanOut ==
    \A p \in Procs :
        /\ calls[p].op = "limit" =>
              now - calls[p].began
                  <= Len(QueryPlan) * Len(OVERPASS_SERVERS(cfg)) * RequestTimeout
        /\ LimitDone(p) => calls[p].outcome = "ok" /\ calls[p].response.source = "none"

(***************************************************************************)
(* SpecStats: client 1 calls /speed-limit in two neighbouring cells, the   *)
(* servers timing out or answering, and POST /cache-reset comes at any     *)
(* moment, between the calls or while a query waits.                       *)
(***************************************************************************)
\* Calls of one behaviour.
MaxStatsCalls == 2

StatsBodies == {Body(<<>>), Body(<<WayMain>>)}

\* POST /cache-reset, at any moment.
ResetAnytime ==
    /\ hist.nresets < MaxResets
    /\ reset_cache
    /\ hist' = [hist EXCEPT !.nresets = @ + 1, !.lastValid = FALSE]
    /\ UNCHANGED <<now, last_successful_server, lastOp, geo, parse, cfg, calls>>

NextStats ==
    \/ /\ hist.ncalls < MaxStatsCalls
       /\ \E ll \in RepeatCoords : LimitStart(1, ll[1], ll[2])
    \/ ServerFails(1, "timeout")
    \/ \E data \in StatsBodies : ServerAnswers(1, data)
    \/ Finish(1)
    \/ ResetAnytime

SpecStats == InitAhead /\ [][NextStats]_vars

\* The step is a reset.
StepResets == hist'.nresets # hist.nresets

\* The step makes the Get of a call of /speed-limit with valid input.
StepLooksUp ==
    /\ calls[1].pc = "idle"
    /\ calls'[1].pc # "idle"
    /\ calls'[1].op = "limit"
    /\ calls'[1].outcome # "input_error"

\* The queries the step begins.
StepBegins ==
    IF calls'[1].pc = "idle" THEN 0
    ELSE Len(calls'[1].issued) - (IF calls[1].pc = "idle" THEN 0 ELSE Len(calls[1].issued))

\* A query returns in the step.
StepReturns ==
    /\ calls[1].pc = "overpass"
    /\ calls'[1] # calls[1]
    /\ calls'[1].finished.ended

\* ... every endpoint having failed.
StepFailsAll ==
    /\ StepReturns
    /\ ~calls'[1].finished.ok
    /\ SeqRange(calls'[1].finished.attempts) = SeqRange(OVERPASS_SERVERS(cfg))

Bit(b) == IF b THEN 1 ELSE 0

CountersStep ==
    IF StepResets
    THEN /\ cache_stats'.hits = 0 /\ cache_stats'.misses = 0
         /\ cache_stats'.api_calls = 0 /\ cache_stats'.api_failures = 0
    ELSE /\ cache_stats'.hits = cache_stats.hits + Bit(StepLooksUp /\ calls'[1].hit)
         /\ cache_stats'.misses = cache_stats.misses + Bit(StepLooksUp /\ ~calls'[1].hit)
         /\ StepLooksUp =>
               calls'[1].hit <=> (calls'[1].pc = "done" /\ calls'[1].outcome = "ok"
                                   /\ StepBegins = 0)
         /\ cache_stats'.api_calls = cache_stats.api_calls + StepBegins
         /\ StepBegins \in {0, 1}
         /\ cache_stats'.api_failures = cache_stats.api_failures + Bit(StepFailsAll)
         /\ StepReturns => (StepFailsAll <=> ~calls'[1].finished.ok)

\* C27: every Get with valid input adds one to exactly one of hits and
\* misses, hits if and only if an entry is returned; every query adds one to
\* the upstream calls, and one to the upstream failures exactly when all
\* endpoints failed; no operation other than reset decreases a counter.
C27_CountersPerOperation == [][CountersStep]_vars

\* C27 witness: a miss and a hit, a query that failed on every endpoint and
\* one that was answered have been counted, without a reset.
C27_EveryCounterMoved ==
    /\ hist.nresets = 0
    /\ cache_stats.hits = 1
    /\ cache_stats.misses = 1
    /\ cache_stats.api_failures >= 1
    /\ cache_stats.api_calls > cache_stats.api_failures

ResetStep ==
    /\ StepResets =>
          /\ speed_limit_cache' = <<>>
          /\ cache_stats'.hits = 0 /\ cache_stats'.misses = 0
          /\ cache_stats'.api_calls = 0 /\ cache_stats'.api_failures = 0
          /\ last_successful_server' = last_successful_server
    /\ (StepLooksUp /\ speed_limit_cache = <<>>) =>
          /\ ~calls'[1].hit
          /\ cache_stats'.misses = cache_stats.misses + 1
          /\ cache_stats'.hits = cache_stats.hits

\* C28: ResetCache leaves the cache empty and the hits, misses, upstream
\* calls and upstream failures at zero, so that a Get of the cache as the
\* reset left it, at any coordinate, is a miss; it leaves EndpointAffinity
\* unchanged.
C28_ResetEmptiesAndZeroes == [][ResetStep]_vars

\* C28 witness: a call returned a result, an endpoint having answered; the
\* reset came; the next call missed and queries, the affinity still set.
C28_MissAfterReset ==
    /\ hist.nresets = 1
    /\ hist.ncalls = 1
    /\ hist.last.outcome = "ok"
    /\ speed_limit_cache = <<>>
    /\ last_successful_server.url # None
    /\ calls[1].pc = "overpass"
    /\ cache_stats.misses = 1 /\ cache_stats.hits = 0 /\ cache_stats.api_calls = 1

(***************************************************************************)
(* Properties of the endpoint affinity, under SpecQuery.                   *)
(***************************************************************************)
\* The step is a post that an endpoint answered with a body that parses.
StepAnswered ==
    /\ calls[1].pc = "overpass"
    /\ calls'[1] # calls[1]
    /\ calls'[1].finished.ended
    /\ calls'[1].finished.ok

AffinityStep ==
    /\ last_successful_server' # last_successful_server => StepAnswered
    /\ StepAnswered =>
          last_successful_server' = [url |-> Head(calls[1].servers), time |-> now]

\* C29: EndpointAffinity changes only when an endpoint has returned a
\* parseable 200 response, and is then that endpoint and the current time;
\* an endpoint whose response fails, by timeout, error status or a 200 with
\* an unparseable body, never becomes lastGoodEndpoint, and a query that
\* returns failure leaves EndpointAffinity unchanged.
C29_AffinityOnlyOnParseableAnswer == [][AffinityStep]_vars

\* The affinity changes only in the step of a post, to the endpoint posted
\* to and the current time.
AffinityOfPostedEndpoint ==
    [][last_successful_server' # last_successful_server =>
          /\ calls[1].pc = "overpass"
          /\ last_successful_server' = [url |-> Head(calls[1].servers), time |-> now]]_vars

\* No other endpoint than the self-hosted one holds an affinity, recent or not.
NoOtherAffinity == last_successful_server.url \in {None, SELF_HOSTED_OVERPASS}

SelfHostedFirstWhenRecent ==
    \A p \in Procs :
        ( /\ cfg.self_hosted /\ QueryJustStarted(p)
          /\ last_successful_server.url = SELF_HOSTED_OVERPASS
          /\ now - last_successful_server.time < 5 * 60 )
            => Head(calls[p].servers) = SELF_HOSTED_OVERPASS

\* ---------------------------------------------------------------------
\* The road a stage resolves from when no candidate has a geometry

ROAD_PRIORITY ==
    [motorway |-> 1, motorway_link |-> 2, trunk |-> 3, trunk_link |-> 4,
     primary |-> 5, primary_link |-> 6, secondary |-> 7, secondary_link |-> 8,
     tertiary |-> 9, tertiary_link |-> 10, residential |-> 11, unclassified |-> 12,
     living_street |-> 13, service |-> 14]

\* ROAD_PRIORITY.get(highway_type, 100)
PriorityOf(element) ==
    IF element.tags.highway \in DOMAIN ROAD_PRIORITY
    THEN ROAD_PRIORITY[element.tags.highway]
    ELSE 100

\* get_best_road(elements): the first element of the smallest priority. No
\* handler calls it.
get_best_road(elements) ==
    IF elements = <<>> THEN NoWay
    ELSE elements[CHOOSE i \in DOMAIN elements :
                      \A j \in DOMAIN elements :
                          \/ PriorityOf(elements[i]) < PriorityOf(elements[j])
                          \/ PriorityOf(elements[i]) = PriorityOf(elements[j]) /\ i <= j]

\* The call of client p resolved from a way of its last answer, none of
\* whose ways has a geometry of two points.
ResolvedWithoutGeometry(p) ==
    /\ LimitDone(p)
    /\ calls[p].outcome = "ok"
    /\ ~calls[p].hit
    /\ calls[p].road # NoWay
    /\ calls[p].candidates # <<>>
    /\ \A i \in DOMAIN calls[p].candidates : Len(calls[p].candidates[i].geometry) < 2

\* The ways the stage that ended the call of client p chose from.
StageCandidates(p) ==
    IF calls[p].response.source = "estimated"
    THEN driveable_roads(calls[p].candidates)
    ELSE calls[p].candidates

\* C31: when a stage receives candidates none of which carries a usable
\* geometry, it resolves from the candidate of the highest road-class
\* priority, whatever the order the candidates were returned in.
C31_PriorityWithoutGeometry ==
    \A p \in Procs :
        ResolvedWithoutGeometry(p) => calls[p].road = get_best_road(StageCandidates(p))

\* Without a usable geometry a stage resolves from the first candidate
\* returned.
FirstWithoutGeometry ==
    \A p \in Procs :
        ResolvedWithoutGeometry(p) => calls[p].road = StageCandidates(p)[1]

\* A call resolved from the first candidate while a later one has the
\* higher priority.
FirstResolvedOverPriority ==
    \E p \in Procs :
        /\ ResolvedWithoutGeometry(p)
        /\ calls[p].road = StageCandidates(p)[1]
        /\ calls[p].road # get_best_road(StageCandidates(p))


\* ---------------------------------------------------------------------
\* SpecAlign: one run of should_include_road_in_prediction on a way whose
\* bearing is known. geo holds its arguments and what it returned.

\* The bearings of the ways, in whole degrees.
MaxBearing == 359

AlignRoadBearings == 0..MaxBearing

\* The bearings of travel, after normalisation.
AlignTravelBearings == {0, 45, 90, 180, 270, 359, 360}

AlignRoadTypes == {"motorway", "residential"}

AlignCurrentTypes == {None, "trunk_link", "residential"}

AlignIdle ==
    [road_type |-> "motorway", current_road_type |-> None, road_bearing |-> 0,
     travel_bearing |-> 0, ran |-> FALSE, included |-> FALSE]

InitAlign ==
    /\ InitShared
    /\ lastOp = NoOp
    /\ ResolverIdle
    /\ parse = ParseIdle
    /\ \E rt \in AlignRoadTypes, ct \in AlignCurrentTypes,
          b \in AlignRoadBearings, t \in AlignTravelBearings :
          geo = [AlignIdle EXCEPT !.road_type = rt, !.current_road_type = ct,
                                  !.road_bearing = b, !.travel_bearing = t]

RunInclude ==
    /\ ~geo.ran
    /\ geo' = [geo EXCEPT
                  !.ran = TRUE,
                  !.included = should_include_road_in_prediction(
                                   geo.road_type, geo.current_road_type,
                                   geo.road_bearing, geo.travel_bearing)]
    /\ UNCHANGED <<now, speed_limit_cache, cache_stats, last_successful_server, lastOp, parse,
                   cfg, calls, hist>>

NextAlign == RunInclude

SpecAlign == InitAlign /\ [][NextAlign]_vars

\* The smallest angle between two bearings on the circle.
CircularDifference(a, b) ==
    LET d == (a - b) % 360
    IN  IF d <= 180 THEN d ELSE 360 - d

\* The smallest angle between the travel bearing t and the line of bearing b,
\* taken in either direction.
LineDifference(t, b) ==
    IF CircularDifference(t, b) <= CircularDifference(t, (b + 180) % 360)
    THEN CircularDifference(t, b)
    ELSE CircularDifference(t, (b + 180) % 360)

\* The tolerance of the run: 35 on a limited-access road, 45 otherwise.
AlignTolerance == IF geo.current_road_type \in LimitedAccess THEN 35 ELSE 45

\* The way of the run passes the filters other than the direction.
ClassAdmitted == geo.current_road_type \in LimitedAccess => geo.road_type \in LimitedAccess

\* C32: a candidate of road bearing b passes the alignment test for the
\* travel bearing t exactly when the smallest circular difference between
\* t and b or b + 180 is at most the tolerance, 35 degrees when the current
\* road is limited-access and 45 otherwise; the test answers the same for
\* b and for b + 180.
C32_AlignedWithinTolerance ==
    (geo.ran /\ ClassAdmitted) =>
        /\ geo.included <=> LineDifference(geo.travel_bearing, geo.road_bearing) <= AlignTolerance
        /\ geo.included <=>
               should_include_road_in_prediction(
                   geo.road_type, geo.current_road_type,
                   (geo.road_bearing + 180) % 360, geo.travel_bearing)

\* On a limited-access road a way running against the travel, exactly 35
\* degrees off its line, passed.
C32_OppositeAtTolerance ==
    /\ geo.ran
    /\ geo.included
    /\ geo.current_road_type \in LimitedAccess
    /\ CircularDifference(geo.travel_bearing, (geo.road_bearing + 180) % 360) = 35
    /\ CircularDifference(geo.travel_bearing, geo.road_bearing) = 145


\* ---------------------------------------------------------------------
\* Properties of the candidates without a bearing, under SpecAhead

\* C33: ResolveAhead never includes in predictions a candidate whose
\* geometry is missing or has fewer than 2 points.
C33_NoPredictionWithoutGeometry ==
    \A p \in Procs : AheadDone(p) =>
        \A i \in DOMAIN calls[p].predicted : BearingKnown(calls[p].predicted[i])

\* The way w passes the filters of client p other than the direction, and
\* its maxspeed reads as a limit.
AdmittedButDirection(p, w) ==
    /\ w.tags.highway \notin {"footway", "cycleway", "path", "steps", "pedestrian",
                              "bridleway", "service", "track", "bus_guideway"}
    /\ calls[p].current_road_type \in LimitedAccess => w.tags.highway \in LimitedAccess
    /\ w.tags.maxspeed # <<>>
    /\ Truthy(ahead_parse(w.tags.maxspeed)[1])
    /\ ahead_parse(w.tags.maxspeed)[1] # ValueError

\* C33, as the code has it: a predicted road is aligned with the travel
\* bearing within the tolerance or has no bearing, and a candidate without a
\* bearing is treated as aligned: the first candidate of the first answer
\* is predicted when it passes the other filters.
C33_UnknownBearingTreatedAligned ==
    \A p \in Procs : AheadDone(p) =>
        /\ \A i \in DOMAIN calls[p].predicted :
              \/ ~BearingKnown(calls[p].predicted[i])
              \/ LineDifference(calls[p].bearing,
                                calculate_road_bearing(calls[p].predicted[i].geometry))
                     <= ToleranceOf(p)
        /\ \A k \in DOMAIN calls[p].answers :
              ( /\ \A j \in 1..(k - 1) : calls[p].answers[j] = <<>>
                /\ calls[p].answers[k] # <<>>
                /\ ~BearingKnown(calls[p].answers[k][1])
                /\ AdmittedButDirection(p, calls[p].answers[k][1]) )
                  => /\ calls[p].predicted # <<>>
                     /\ calls[p].predicted[1] = calls[p].answers[k][1]

\* Off a limited-access road, a way without geometry was predicted with
\* its limit.
C33_PredictedWithoutGeometry ==
    \E p \in Procs :
        /\ AheadDone(p)
        /\ calls[p].current_road_type \notin LimitedAccess
        /\ \E i \in DOMAIN calls[p].predicted :
              /\ calls[p].predicted[i].geometry = <<>>
              /\ calls[p].prediction.upcoming_limits[i].speed_limit = 35


\* ---------------------------------------------------------------------
\* Properties of the order of the lookup, under SpecCache

\* Before the last lookup the cell looked up held an entry that had not
\* expired.
ExactFreshBefore == GetKey \in CacheKeys(lastOp.prev) /\ ~ExpiredBefore(GetKey)

\* A neighbour of the cell looked up held an unexpired explicit entry then.
NeighborExplicitBefore ==
    \E i \in 1..9 :
        LET k == get_nearby_cache_keys(lastOp.lat, lastOp.lon)[i]
        IN  /\ k # GetKey
            /\ k \in CacheKeys(lastOp.prev)
            /\ ~ExpiredBefore(k)
            /\ CacheEntry(lastOp.prev, k).data.source = "openstreetmap"

\* C34: if the exact cell holds an unexpired entry, the lookup returns that
\* entry whatever its source and serves no neighbour's entry, even when a
\* neighbour holds an unexpired explicit one; a neighbour's entry is served
\* only when the exact cell has no entry or its entry has expired.
C34_ExactCellFirst ==
    lastOp.op = "get" =>
        /\ ExactFreshBefore =>
              /\ lastOp.hit
              /\ lastOp.served = GetKey
              /\ lastOp.data = CacheEntry(lastOp.prev, GetKey).data
        /\ ServedByNeighbor => ~ExactFreshBefore

\* The lookup returned the exact cell's entry of source none while a
\* neighbour held an unexpired explicit entry.
C34_NoneReturnedBesideExplicit ==
    /\ lastOp.op = "get"
    /\ ExactFreshBefore
    /\ NeighborExplicitBefore
    /\ lastOp.hit
    /\ lastOp.served = GetKey
    /\ lastOp.data.source = "none"


\* ---------------------------------------------------------------------
\* Properties of the reported success rate, under SpecStats

\* api_success_rate of get_cache_stats, in whole percent (rounded down).
api_success_rate(st) ==
    IF st.api_calls > 0
    THEN ((st.api_calls - st.api_failures) * 100) \div st.api_calls
    ELSE 100

\* C36: in every reachable state, resets interleaved with queries in
\* flight included, the counter of upstream failures is at most the counter
\* of upstream calls, and the reported success rate lies between 0 and 100.
C36_FailuresAtMostCalls ==
    /\ cache_stats.api_failures <= cache_stats.api_calls
    /\ api_success_rate(cache_stats) >= 0
    /\ api_success_rate(cache_stats) <= 100

\* As long as no reset was performed, the failures counted are at most the
\* calls counted and the rate lies between 0 and 100.
FailuresAtMostCallsBeforeReset ==
    hist.nresets = 0 => C36_FailuresAtMostCalls

\* After a reset with a query in flight, a negative success rate is reported.
NegativeSuccessRate ==
    /\ hist.nresets > 0
    /\ cache_stats.api_calls > 0
    /\ api_success_rate(cache_stats) < 0


\* ---------------------------------------------------------------------
\* SpecOverlap: two clients call GET /speed-limit at the same time. A
\* handler runs from one await to the next without interruption, so the
\* actions of the two invocations interleave at the awaits of the posts.

MaxOverlapCalls == 1

MaxOverlapTime == 1

OverlapBodies == {Body(<<>>), Body(<<WayMain>>), Body(<<WayFoot, WayResidential>>)}

\* The invocations started so far.
OverlapStarted == hist.ncalls + Cardinality({p \in Procs : calls[p].pc # "idle"})

\* Time passes, whether or not an invocation awaits.
OverlapTick ==
    /\ now < MaxOverlapTime
    /\ now' = now + 1
    /\ UNCHANGED <<speed_limit_cache, cache_stats, last_successful_server, lastOp, geo, parse,
                   cfg, calls, hist>>

NextOverlap ==
    \/ /\ OverlapStarted < MaxOverlapCalls + 1
       /\ \E p \in Procs : \E ll \in RepeatCoords : LimitStart(p, ll[1], ll[2])
    \/ \E p \in Procs : \E data \in OverlapBodies : ServerAnswers(p, data)
    \/ \E p \in Procs : Finish(p)
    \/ OverlapTick

SpecOverlap == InitAhead /\ [][NextOverlap]_vars

\* The result dicts a call writes: all four keys, a limit exactly when the
\* source is one that gives a limit.
CompleteResult(data) ==
    /\ DOMAIN data = {"speed_limit", "unit", "road_name", "source"}
    /\ data.source \in {"openstreetmap", "estimated", "tomtom", "none"}
    /\ data.unit \in {"mph", "km/h"}
    /\ (data.source = "none") <=> (data.speed_limit = NoneInt)

\* The state of the dict: one item per key, every item a complete result.
OneCompleteEntryPerKey ==
    /\ \A i, j \in DOMAIN speed_limit_cache :
          speed_limit_cache[i].key = speed_limit_cache[j].key => i = j
    /\ \A i \in DOMAIN speed_limit_cache : CompleteResult(speed_limit_cache[i].data)

\* The call of client p returns in the step with a result it did not get
\* from the dict: the step of its Put.
StepPuts(p) ==
    /\ calls[p].pc = "overpass"
    /\ calls'[p].pc = "done"
    /\ calls'[p].op = "limit"
    /\ calls'[p].outcome = "ok"

\* After the step the dict holds under key k the result returned to client p.
PutOf(p, k) ==
    /\ k = get_cache_key(calls'[p].lat, calls'[p].lon)
    /\ k \in CacheKeys(speed_limit_cache')
    /\ CacheEntry(speed_limit_cache', k).data.speed_limit = calls'[p].response.speed_limit
    /\ CacheEntry(speed_limit_cache', k).data.unit = calls'[p].response.unit
    /\ CacheEntry(speed_limit_cache', k).data.road_name = calls'[p].response.road_name
    /\ CacheEntry(speed_limit_cache', k).data.source = calls'[p].response.source
    /\ CacheEntry(speed_limit_cache', k).timestamp = now

\* Every Put leaves its result under its cell, and an entry appears or
\* changes only by the Put of a call on its cell.
PutStep ==
    /\ \A p \in Procs :
          StepPuts(p) => PutOf(p, get_cache_key(calls'[p].lat, calls'[p].lon))
    /\ \A k \in CacheKeys(speed_limit_cache') :
          ( \/ k \notin CacheKeys(speed_limit_cache)
            \/ CacheEntry(speed_limit_cache', k) # CacheEntry(speed_limit_cache, k) )
              => \E p \in Procs : StepPuts(p) /\ PutOf(p, k)

\* C35: under any interleaving of concurrent ResolveCurrent calls the cache
\* holds at most one entry per quantized key, every entry is a complete
\* result written by some call's Put, and the entry of a cell is the result
\* of the last Put performed on that cell.
C35_LastPutWins == []OneCompleteEntryPerKey /\ [][PutStep]_vars

\* Both clients were answered from upstream for the same cell with
\* different results, and the dict holds one entry for the cell, the result
\* of client 2.
C35_TwoPutsOneEntry ==
    /\ ResolvedUpstream(1)
    /\ ResolvedUpstream(2)
    /\ get_cache_key(calls[1].lat, calls[1].lon) = get_cache_key(calls[2].lat, calls[2].lon)
    /\ calls[1].response.source = "openstreetmap"
    /\ calls[2].response.source = "estimated"
    /\ Len(speed_limit_cache) = 1
    /\ speed_limit_cache[1].data.source = "estimated"

\* No entry is held under the cell of (lat, lon) or one of its neighbours.
CellUncached(lat, lon) ==
    \A i \in 1..9 : get_nearby_cache_keys(lat, lon)[i] \notin CacheKeys(speed_limit_cache)

\* Client o awaits upstream for the cell of (lat, lon).
AwaitsFor(o, lat, lon) ==
    /\ calls[o].pc = "overpass"
    /\ calls[o].op = "limit"
    /\ get_cache_key(calls[o].lat, calls[o].lon) = get_cache_key(lat, lon)

\* A call of client p that starts while another client awaits upstream for
\* the same uncached cell misses and begins a query of its own.
StartBesideAwaiting ==
    \A p \in Procs :
        ( /\ calls[p].pc = "idle"
          /\ calls'[p].pc # "idle"
          /\ CellUncached(calls'[p].lat, calls'[p].lon)
          /\ \E o \in Procs \ {p} : AwaitsFor(o, calls'[p].lat, calls'[p].lon) )
            => /\ calls'[p].pc = "overpass"
               /\ ~calls'[p].hit
               /\ Len(calls'[p].issued) = 1
               /\ cache_stats'.misses = cache_stats.misses + 1
               /\ cache_stats'.api_calls = cache_stats.api_calls + 1

\* The upstream calls counted are those of all the callers together.
CallsOfAllCallers ==
    cache_stats.api_calls >= Len(calls[1].issued) + Len(calls[2].issued)

\* C37: concurrent ResolveCurrent calls for the same uncached cell are not
\* coalesced: a call that starts while another call for that cell still
\* awaits upstream also misses the cache and issues its own upstream
\* queries, and the upstream calls for the cell add up over the callers.
C37_NotCoalesced == []CallsOfAllCallers /\ [][StartBesideAwaiting]_vars

\* Both clients await upstream for the same cell, each having missed and
\* begun a query.
C37_BothQuerying ==
    /\ AwaitsFor(1, calls[2].lat, calls[2].lon)
    /\ AwaitsFor(2, calls[1].lat, calls[1].lon)
    /\ speed_limit_cache = <<>>
    /\ cache_stats.misses = 2
    /\ cache_stats.api_calls = 2


\* ---------------------------------------------------------------------
\* The two parsers of a declared limit, under SpecParse

\* What get_speed_ahead reads of the maxspeed text of a candidate: nothing
\* of an empty text ("if maxspeed:").
AheadRead(text) == IF text = <<>> THEN <<NoneInt, "mph">> ELSE ahead_parse(text)

\* The two readings are the same limit and unit, or both are no limit.
SameReading(a, b) == (a[1] = NoneInt /\ b[1] = NoneInt) \/ a = b

\* C38: the parsing ResolveAhead applies to the declared limit of a
\* candidate agrees with ParseDeclaredLimit on every text: both give the same
\* (value, unit), or both give none.
C38_AheadParsingAgrees ==
    parse.ran => SameReading(AheadRead(parse.text), parse.result)

\* The text is one of the special values of parse_maxspeed.
SpecialValue(text) ==
    StrStrip(StrLower(text)) \in
        {<<"n", "o", "n", "e">>, <<"u", "n", "l", "i", "m", "i", "t", "e", "d">>,
         <<"w", "a", "l", "k">>}

\* The two parsers agree on every text but the special values, of which
\* get_speed_ahead reads no limit.
AheadParsingAgreesButSpecial ==
    parse.ran =>
        IF SpecialValue(parse.text)
        THEN AheadRead(parse.text)[1] = NoneInt /\ parse.result[1] \in {75, 5}
        ELSE SameReading(AheadRead(parse.text), parse.result)


\* ---------------------------------------------------------------------
\* The size of the dict, under SpecEvict

====
